---------------------------- MODULE Spec2Model ----------------------------
(***************************************************************************)
(* A model of the AI test triage agent: the log parser                     *)
(* (ingestion/log_parser.py), the analysis tools (agent/tools.py), the     *)
(* orchestration of one analysis (agent/planner.py), the memory            *)
(* collaborator's read interface (agent/memory.py) and the batch command   *)
(* (cli.py).                                                               *)
(*                                                                         *)
(* Text is a tuple of one-character strings, so that lower-casing,         *)
(* substring search, splitting, stripping and the regular expressions of   *)
(* the parser are computed the way Python computes them.  A character      *)
(* outside ASCII is one element written "U+XXXX".  A float is an integer   *)
(* number of thousandths; a value one unit above or below a multiple of    *)
(* ten stands for the IEEE-754 double next to that decimal (601 is         *)
(* 0.6000000000000001), see FloatAdd.                                      *)
(***************************************************************************)
EXTENDS Integers, Sequences, FiniteSets, TLC

(***************************************************************************)
(* Python text primitives                                                  *)
(***************************************************************************)

\* An Optional[...] value: None is the empty tuple, a present value v is <<v>>.
None == <<>>
Some(v) == <<v>>

\* str.lower() on one ASCII character.
UpperToLower ==
    [c \in {"A","B","C","D","E","F","G","H","I","J","K","L","M","N","O","P","Q","R","S","T",
            "U","V","W","X","Y","Z"} |->
        CASE c = "A" -> "a" [] c = "B" -> "b" [] c = "C" -> "c" [] c = "D" -> "d"
          [] c = "E" -> "e" [] c = "F" -> "f" [] c = "G" -> "g" [] c = "H" -> "h"
          [] c = "I" -> "i" [] c = "J" -> "j" [] c = "K" -> "k" [] c = "L" -> "l"
          [] c = "M" -> "m" [] c = "N" -> "n" [] c = "O" -> "o" [] c = "P" -> "p"
          [] c = "Q" -> "q" [] c = "R" -> "r" [] c = "S" -> "s" [] c = "T" -> "t"
          [] c = "U" -> "u" [] c = "V" -> "v" [] c = "W" -> "w" [] c = "X" -> "x"
          [] c = "Y" -> "y" [] c = "Z" -> "z"]

LowerChar(c) == IF c \in DOMAIN UpperToLower THEN UpperToLower[c] ELSE c

\* str.lower()
Lower(t) == [i \in 1..Len(t) |-> LowerChar(t[i])]

\* The characters str.strip() and str.split() treat as whitespace.
Whitespace == {" ", "\n", "\t", "\r"}

\* \d of the re module (ASCII digits).
Digits == {"0","1","2","3","4","5","6","7","8","9"}

\* \w of the re module: letters, digits and the underscore.
IsWordChar(c) == \/ c \in Digits
                 \/ c = "_"
                 \/ c \in DOMAIN UpperToLower
                 \/ c \in {UpperToLower[u] : u \in DOMAIN UpperToLower}

\* Whether k occurs in t at index i.
MatchAt(t, k, i) == /\ i >= 1
                    /\ i + Len(k) - 1 <= Len(t)
                    /\ \A j \in 1..Len(k) : t[i + j - 1] = k[j]

\* Python's `k in t` for strings.
Contains(t, k) == \E i \in 1..(Len(t) - Len(k) + 1) : MatchAt(t, k, i)

\* The least index of a set of positions, 0 when there is none.
MinIndex(S) == IF S = {} THEN 0 ELSE CHOOSE i \in S : \A j \in S : i <= j

\* str.find(k, from) + 1: the leftmost index >= from where k occurs, 0 if none.
FindFrom(t, k, from) ==
    MinIndex({i \in from..(Len(t) - Len(k) + 1) : MatchAt(t, k, i)})

\* str.strip(): leading and trailing whitespace removed.
Strip(t) ==
    LET keep == {i \in 1..Len(t) : t[i] \notin Whitespace}
    IN  IF keep = {} THEN <<>>
        ELSE SubSeq(t, MinIndex(keep), CHOOSE i \in keep : \A j \in keep : j <= i)

\* str.split(sep) for a one-character separator, from index i on.
RECURSIVE SplitFrom(_, _, _)
SplitFrom(t, sep, i) ==
    LET n == MinIndex({j \in i..Len(t) : t[j] = sep})
    IN  IF n = 0 THEN <<SubSeq(t, i, Len(t))>>
        ELSE <<SubSeq(t, i, n - 1)>> \o SplitFrom(t, sep, n + 1)

Split(t, sep) == SplitFrom(t, sep, 1)

\* str.split(): the maximal runs of non-whitespace characters, in order.
RECURSIVE SplitWhitespaceFrom(_, _)
SplitWhitespaceFrom(t, i) ==
    LET s == MinIndex({j \in i..Len(t) : t[j] \notin Whitespace})
    IN  IF s = 0 THEN <<>>
        ELSE LET e == MinIndex({j \in s..Len(t) : t[j] \in Whitespace})
                 last == IF e = 0 THEN Len(t) ELSE e - 1
             IN  <<SubSeq(t, s, last)>> \o SplitWhitespaceFrom(t, last + 1)

SplitWhitespace(t) == SplitWhitespaceFrom(t, 1)

\* sep.join(parts)
RECURSIVE Join(_, _)
Join(parts, sep) ==
    IF parts = <<>> THEN <<>>
    ELSE IF Len(parts) = 1 THEN parts[1]
    ELSE parts[1] \o sep \o Join(Tail(parts), sep)

\* str.endswith(k)
EndsWith(t, k) == MatchAt(t, k, Len(t) - Len(k) + 1)

\* The value of one decimal digit.
DigitValue(c) ==
    CASE c = "0" -> 0 [] c = "1" -> 1 [] c = "2" -> 2 [] c = "3" -> 3 [] c = "4" -> 4
      [] c = "5" -> 5 [] c = "6" -> 6 [] c = "7" -> 7 [] c = "8" -> 8 [] c = "9" -> 9

\* int(text) for a run of decimal digits.
RECURSIVE DigitsToInt(_)
DigitsToInt(t) ==
    IF t = <<>> THEN 0
    ELSE 10 * DigitsToInt(SubSeq(t, 1, Len(t) - 1)) + DigitValue(t[Len(t)])

\* str(n) for a natural number.
RECURSIVE IntToStr(_)
IntToStr(n) ==
    LET d == <<"0","1","2","3","4","5","6","7","8","9">>[(n % 10) + 1]
    IN  IF n < 10 THEN <<d>> ELSE IntToStr(n \div 10) \o <<d>>

\* The first n elements of a list (Python's s[:n]).
Take(s, n) == SubSeq(s, 1, IF Len(s) < n THEN Len(s) ELSE n)

(***************************************************************************)
(* String literals of the source, as tuples of characters                  *)
(***************************************************************************)

\* The level vocabulary, in the order of the alternation (log_parser.py:52).
LEVEL_PATTERN ==
    [tokens |-> <<
        \* INFO
        <<"I","N","F","O">>,
        \* ERROR
        <<"E","R","R","O","R">>,
        \* FAIL
        <<"F","A","I","L">>,
        \* PASS
        <<"P","A","S","S">>,
        \* WARNING
        <<"W","A","R","N","I","N","G">>,
        \* NOTE
        <<"N","O","T","E">>
     >>,
     error_levels |-> <<
        \* ERROR
        <<"E","R","R","O","R">>,
        \* FAIL
        <<"F","A","I","L">>
     >>,
     \* INFO
     default |-> <<"I","N","F","O">>]

\* Literals of the parser's extractors (log_parser.py:125-182).
PARSER_TEXT ==
     \* Starting test:
    [starting_test |-> <<"S","t","a","r","t","i","n","g"," ","t","e","s","t",":">>,
     \* test
     test |-> <<"t","e","s","t">>,
     \* unknown_test
     unknown_test |-> <<"u","n","k","n","o","w","n","_","t","e","s","t">>,
     \* Unknown failure
     unknown_failure |-> <<"U","n","k","n","o","w","n"," ","f","a","i","l","u","r","e">>,
     \* after 
     after |-> <<"a","f","t","e","r"," ">>,
     \* s
     s |-> <<"s">>,
     \* screenshot
     screenshot |-> <<"s","c","r","e","e","n","s","h","o","t">>,
     image_suffixes |-> <<
        \* .png
        <<".","p","n","g">>,
        \* .jpg
        <<".","j","p","g">>,
        \* .jpeg
        <<".","j","p","e","g">>
     >>,
     \* retry attempt
     retry_attempt |-> <<"r","e","t","r","y"," ","a","t","t","e","m","p","t">>,
     \* timeout
     timeout |-> <<"t","i","m","e","o","u","t">>,
     \* selector
     selector |-> <<"s","e","l","e","c","t","o","r">>,
     \* element not found
     element_not_found |-> <<"e","l","e","m","e","n","t"," ","n","o","t"," ","f","o","u","n","d">>,
     \* connection
     connection |-> <<"c","o","n","n","e","c","t","i","o","n">>,
     \* network
     network |-> <<"n","e","t","w","o","r","k">>,
     \* database
     database |-> <<"d","a","t","a","b","a","s","e">>,
     \* duplicate key
     duplicate_key |-> <<"d","u","p","l","i","c","a","t","e"," ","k","e","y">>,
     \* TimeoutError
     TimeoutError |-> <<"T","i","m","e","o","u","t","E","r","r","o","r">>,
     \* SelectorError
     SelectorError |-> <<"S","e","l","e","c","t","o","r","E","r","r","o","r">>,
     \* NetworkError
     NetworkError |-> <<"N","e","t","w","o","r","k","E","r","r","o","r">>,
     \* DatabaseError
     DatabaseError |-> <<"D","a","t","a","b","a","s","e","E","r","r","o","r">>]

\* Keyword lists of the classifier's cascade (tools.py:82-98).
CLASSIFIER_WORDS ==
    [timeout |-> <<
        \* timeout
        <<"t","i","m","e","o","u","t">>,
        \* timed out
        <<"t","i","m","e","d"," ","o","u","t">>,
        \* exceeded
        <<"e","x","c","e","e","d","e","d">>
     >>,
     selector |-> <<
        \* selector
        <<"s","e","l","e","c","t","o","r">>,
        \* not found
        <<"n","o","t"," ","f","o","u","n","d">>,
        \* element
        <<"e","l","e","m","e","n","t">>,
        \* locator
        <<"l","o","c","a","t","o","r">>
     >>,
     network |-> <<
        \* network
        <<"n","e","t","w","o","r","k">>,
        \* connection
        <<"c","o","n","n","e","c","t","i","o","n">>,
        \* etimedout
        <<"e","t","i","m","e","d","o","u","t">>,
        \* econnrefused
        <<"e","c","o","n","n","r","e","f","u","s","e","d">>
     >>,
     data_setup |-> <<
        \* database
        <<"d","a","t","a","b","a","s","e">>,
        \* duplicate key
        <<"d","u","p","l","i","c","a","t","e"," ","k","e","y">>,
        \* constraint
        <<"c","o","n","s","t","r","a","i","n","t">>,
        \* data
        <<"d","a","t","a">>
     >>,
     environment |-> <<
        \* environment
        <<"e","n","v","i","r","o","n","m","e","n","t">>,
        \* config
        <<"c","o","n","f","i","g">>,
        \* permission
        <<"p","e","r","m","i","s","s","i","o","n">>
     >>]

\* Error types that count as flaky (tools.py:53).
FLAKY_ERROR_TYPES ==
    [types |-> <<
        \* NetworkError
        <<"N","e","t","w","o","r","k","E","r","r","o","r">>,
        \* TimeoutError
        <<"T","i","m","e","o","u","t","E","r","r","o","r">>
     >>]

\* Action strings of suggest_actions (tools.py:112-154).
ACTION_TEXT ==
     \* Apply similar fix: 
    [apply_similar_fix |-> <<"A","p","p","l","y"," ","s","i","m","i","l","a","r"," ","f","i","x",
         ":"," ">>,
     \* Increase wait timeout (consider animation/loading time)
     timeout_1 |-> <<"I","n","c","r","e","a","s","e"," ","w","a","i","t"," ","t","i","m","e","o",
         "u","t"," ","(","c","o","n","s","i","d","e","r"," ","a","n","i","m","a","t","i","o","n",
         "/","l","o","a","d","i","n","g"," ","t","i","m","e",")">>,
     \* Add explicit wait for element state (visible/stable)
     timeout_2 |-> <<"A","d","d"," ","e","x","p","l","i","c","i","t"," ","w","a","i","t"," ","f",
         "o","r"," ","e","l","e","m","e","n","t"," ","s","t","a","t","e"," ","(","v","i","s","i",
         "b","l","e","/","s","t","a","b","l","e",")">>,
     \* Test is flaky - add retry logic or investigate root cause
     timeout_flaky |-> <<"T","e","s","t"," ","i","s"," ","f","l","a","k","y"," ","-"," ","a","d",
         "d"," ","r","e","t","r","y"," ","l","o","g","i","c"," ","o","r"," ","i","n","v","e","s",
         "t","i","g","a","t","e"," ","r","o","o","t"," ","c","a","u","s","e">>,
     \* Update selector - UI may have changed
     selector_1 |-> <<"U","p","d","a","t","e"," ","s","e","l","e","c","t","o","r"," ","-"," ","U",
         "I"," ","m","a","y"," ","h","a","v","e"," ","c","h","a","n","g","e","d">>,
     \* Check recent deployments for UI changes
     selector_2 |-> <<"C","h","e","c","k"," ","r","e","c","e","n","t"," ","d","e","p","l","o","y",
         "m","e","n","t","s"," ","f","o","r"," ","U","I"," ","c","h","a","n","g","e","s">>,
     \* Use more stable selectors (data-testid, aria-label)
     selector_3 |-> <<"U","s","e"," ","m","o","r","e"," ","s","t","a","b","l","e"," ","s","e","l",
         "e","c","t","o","r","s"," ","(","d","a","t","a","-","t","e","s","t","i","d",","," ","a",
         "r","i","a","-","l","a","b","e","l",")">>,
     \* Add retry logic with exponential backoff
     network_1 |-> <<"A","d","d"," ","r","e","t","r","y"," ","l","o","g","i","c"," ","w","i","t",
         "h"," ","e","x","p","o","n","e","n","t","i","a","l"," ","b","a","c","k","o","f","f">>,
     \* Check CI environment network stability
     network_2 |-> <<"C","h","e","c","k"," ","C","I"," ","e","n","v","i","r","o","n","m","e","n",
         "t"," ","n","e","t","w","o","r","k"," ","s","t","a","b","i","l","i","t","y">>,
     \* Highly flaky - investigate environment or mock network calls
     network_flaky |-> <<"H","i","g","h","l","y"," ","f","l","a","k","y"," ","-"," ","i","n","v",
         "e","s","t","i","g","a","t","e"," ","e","n","v","i","r","o","n","m","e","n","t"," ","o",
         "r"," ","m","o","c","k"," ","n","e","t","w","o","r","k"," ","c","a","l","l","s">>,
     \* Review test data setup - ensure cleanup between runs
     data_1 |-> <<"R","e","v","i","e","w"," ","t","e","s","t"," ","d","a","t","a"," ","s","e","t",
         "u","p"," ","-"," ","e","n","s","u","r","e"," ","c","l","e","a","n","u","p"," ","b","e",
         "t","w","e","e","n"," ","r","u","n","s">>,
     \* Use unique identifiers to prevent conflicts
     data_2 |-> <<"U","s","e"," ","u","n","i","q","u","e"," ","i","d","e","n","t","i","f","i","e",
         "r","s"," ","t","o"," ","p","r","e","v","e","n","t"," ","c","o","n","f","l","i","c","t",
         "s">>,
     \* Add database reset in test teardown
     data_3 |-> <<"A","d","d"," ","d","a","t","a","b","a","s","e"," ","r","e","s","e","t"," ","i",
         "n"," ","t","e","s","t"," ","t","e","a","r","d","o","w","n">>,
     \* Check environment configuration
     env_1 |-> <<"C","h","e","c","k"," ","e","n","v","i","r","o","n","m","e","n","t"," ","c","o",
         "n","f","i","g","u","r","a","t","i","o","n">>,
     \* Verify dependencies and services are running
     env_2 |-> <<"V","e","r","i","f","y"," ","d","e","p","e","n","d","e","n","c","i","e","s"," ",
         "a","n","d"," ","s","e","r","v","i","c","e","s"," ","a","r","e"," ","r","u","n","n","i",
         "n","g">>,
     \* U+1F6A8 HIGH FLAKINESS - Consider quarantining test
     quarantine |-> <<"U+1F6A8"," ","H","I","G","H"," ","F","L","A","K","I","N","E","S","S"," ",
         "-"," ","C","o","n","s","i","d","e","r"," ","q","u","a","r","a","n","t","i","n","i","n",
         "g"," ","t","e","s","t">>,
     \* Re-run test to confirm failure is reproducible
     generic_1 |-> <<"R","e","-","r","u","n"," ","t","e","s","t"," ","t","o"," ","c","o","n","f",
         "i","r","m"," ","f","a","i","l","u","r","e"," ","i","s"," ","r","e","p","r","o","d","u",
         "c","i","b","l","e">>,
     \* Review recent code changes
     generic_2 |-> <<"R","e","v","i","e","w"," ","r","e","c","e","n","t"," ","c","o","d","e"," ",
         "c","h","a","n","g","e","s">>,
     \* Check CI logs for environment issues
     generic_3 |-> <<"C","h","e","c","k"," ","C","I"," ","l","o","g","s"," ","f","o","r"," ","e",
         "n","v","i","r","o","n","m","e","n","t"," ","i","s","s","u","e","s">>]

\* Reasoning-trace entries of analyze (planner.py:61-86).
STEP_TEXT ==
     \* Gathering evidence from logs and error messages
    [gather |-> <<"G","a","t","h","e","r","i","n","g"," ","e","v","i","d","e","n","c","e"," ","f",
         "r","o","m"," ","l","o","g","s"," ","a","n","d"," ","e","r","r","o","r"," ","m","e","s",
         "s","a","g","e","s">>,
     \* Searching for similar past failures in memory
     search |-> <<"S","e","a","r","c","h","i","n","g"," ","f","o","r"," ","s","i","m","i","l","a",
         "r"," ","p","a","s","t"," ","f","a","i","l","u","r","e","s"," ","i","n"," ","m","e","m",
         "o","r","y">>,
     \* Retrieving history for test: 
     history |-> <<"R","e","t","r","i","e","v","i","n","g"," ","h","i","s","t","o","r","y"," ","f",
         "o","r"," ","t","e","s","t",":"," ">>,
     \* Calculating flakiness probability
     flaky |-> <<"C","a","l","c","u","l","a","t","i","n","g"," ","f","l","a","k","i","n","e","s",
         "s"," ","p","r","o","b","a","b","i","l","i","t","y">>,
     \* Classifying failure type
     classify |-> <<"C","l","a","s","s","i","f","y","i","n","g"," ","f","a","i","l","u","r","e",
         " ","t","y","p","e">>,
     \* Generating root cause explanation
     explain |-> <<"G","e","n","e","r","a","t","i","n","g"," ","r","o","o","t"," ","c","a","u","s",
         "e"," ","e","x","p","l","a","n","a","t","i","o","n">>,
     \* Determining actionable next steps
     actions |-> <<"D","e","t","e","r","m","i","n","i","n","g"," ","a","c","t","i","o","n","a","b",
         "l","e"," ","n","e","x","t"," ","s","t","e","p","s">>]

\* Texts of _rule_based_explanation (planner.py:155-194).
EXPLANATION_TEXT ==
     \* The test '
    [the_test |-> <<"T","h","e"," ","t","e","s","t"," ","'">>,
     \* ' timed out waiting for an element. This typically occurs when the page takes longer than expected to render, or when elements are hidden/delayed by animations.
     timeout_tail |-> <<"'"," ","t","i","m","e","d"," ","o","u","t"," ","w","a","i","t","i","n",
         "g"," ","f","o","r"," ","a","n"," ","e","l","e","m","e","n","t","."," ","T","h","i","s",
         " ","t","y","p","i","c","a","l","l","y"," ","o","c","c","u","r","s"," ","w","h","e","n",
         " ","t","h","e"," ","p","a","g","e"," ","t","a","k","e","s"," ","l","o","n","g","e","r",
         " ","t","h","a","n"," ","e","x","p","e","c","t","e","d"," ","t","o"," ","r","e","n","d",
         "e","r",","," ","o","r"," ","w","h","e","n"," ","e","l","e","m","e","n","t","s"," ","a",
         "r","e"," ","h","i","d","d","e","n","/","d","e","l","a","y","e","d"," ","b","y"," ","a",
         "n","i","m","a","t","i","o","n","s",".">>,
     \* The test cannot find the expected element using the specified selector. This usually indicates that the UI structure has changed, requiring an update to the test's element locators.
     selector |-> <<"T","h","e"," ","t","e","s","t"," ","c","a","n","n","o","t"," ","f","i","n",
         "d"," ","t","h","e"," ","e","x","p","e","c","t","e","d"," ","e","l","e","m","e","n","t",
         " ","u","s","i","n","g"," ","t","h","e"," ","s","p","e","c","i","f","i","e","d"," ","s",
         "e","l","e","c","t","o","r","."," ","T","h","i","s"," ","u","s","u","a","l","l","y"," ",
         "i","n","d","i","c","a","t","e","s"," ","t","h","a","t"," ","t","h","e"," ","U","I"," ",
         "s","t","r","u","c","t","u","r","e"," ","h","a","s"," ","c","h","a","n","g","e","d",",",
         " ","r","e","q","u","i","r","i","n","g"," ","a","n"," ","u","p","d","a","t","e"," ","t",
         "o"," ","t","h","e"," ","t","e","s","t","'","s"," ","e","l","e","m","e","n","t"," ","l",
         "o","c","a","t","o","r","s",".">>,
     \* Network connectivity issues prevented the test from completing. This may be due to temporary network instability in the CI environment or issues with external dependencies.
     network |-> <<"N","e","t","w","o","r","k"," ","c","o","n","n","e","c","t","i","v","i","t","y",
         " ","i","s","s","u","e","s"," ","p","r","e","v","e","n","t","e","d"," ","t","h","e"," ",
         "t","e","s","t"," ","f","r","o","m"," ","c","o","m","p","l","e","t","i","n","g","."," ",
         "T","h","i","s"," ","m","a","y"," ","b","e"," ","d","u","e"," ","t","o"," ","t","e","m",
         "p","o","r","a","r","y"," ","n","e","t","w","o","r","k"," ","i","n","s","t","a","b","i",
         "l","i","t","y"," ","i","n"," ","t","h","e"," ","C","I"," ","e","n","v","i","r","o","n",
         "m","e","n","t"," ","o","r"," ","i","s","s","u","e","s"," ","w","i","t","h"," ","e","x",
         "t","e","r","n","a","l"," ","d","e","p","e","n","d","e","n","c","i","e","s",".">>,
     \* Test data setup failed, likely due to database constraint violations or leftover data from previous test runs. Proper test isolation and cleanup is needed.
     data_setup |-> <<"T","e","s","t"," ","d","a","t","a"," ","s","e","t","u","p"," ","f","a","i",
         "l","e","d",","," ","l","i","k","e","l","y"," ","d","u","e"," ","t","o"," ","d","a","t",
         "a","b","a","s","e"," ","c","o","n","s","t","r","a","i","n","t"," ","v","i","o","l","a",
         "t","i","o","n","s"," ","o","r"," ","l","e","f","t","o","v","e","r"," ","d","a","t","a",
         " ","f","r","o","m"," ","p","r","e","v","i","o","u","s"," ","t","e","s","t"," ","r","u",
         "n","s","."," ","P","r","o","p","e","r"," ","t","e","s","t"," ","i","s","o","l","a","t",
         "i","o","n"," ","a","n","d"," ","c","l","e","a","n","u","p"," ","i","s"," ","n","e","e",
         "d","e","d",".">>,
     \* The test failed due to environment configuration issues. This could involve missing dependencies, incorrect settings, or service availability problems.
     environment |-> <<"T","h","e"," ","t","e","s","t"," ","f","a","i","l","e","d"," ","d","u","e",
         " ","t","o"," ","e","n","v","i","r","o","n","m","e","n","t"," ","c","o","n","f","i","g",
         "u","r","a","t","i","o","n"," ","i","s","s","u","e","s","."," ","T","h","i","s"," ","c",
         "o","u","l","d"," ","i","n","v","o","l","v","e"," ","m","i","s","s","i","n","g"," ","d",
         "e","p","e","n","d","e","n","c","i","e","s",","," ","i","n","c","o","r","r","e","c","t",
         " ","s","e","t","t","i","n","g","s",","," ","o","r"," ","s","e","r","v","i","c","e"," ",
         "a","v","a","i","l","a","b","i","l","i","t","y"," ","p","r","o","b","l","e","m","s",".">>,
     \* ' failed with error: 
     failed_with |-> <<"'"," ","f","a","i","l","e","d"," ","w","i","t","h"," ","e","r","r","o","r",
         ":"," ">>,
     \*  A similar failure was previously resolved by: 
     similar_fix |-> <<" ","A"," ","s","i","m","i","l","a","r"," ","f","a","i","l","u","r","e"," ",
         "w","a","s"," ","p","r","e","v","i","o","u","s","l","y"," ","r","e","s","o","l","v","e",
         "d"," ","b","y",":"," ">>]

\* Texts of build_evidence_summary (tools.py:167-186).
EVIDENCE_TEXT ==
     \* CURRENT FAILURE:
    [current |-> <<"C","U","R","R","E","N","T"," ","F","A","I","L","U","R","E",":">>,
     \* Test: 
     test |-> <<"T","e","s","t",":"," ">>,
     \* Error: 
     error |-> <<"E","r","r","o","r",":"," ">>,
     \* Type: 
     type |-> <<"T","y","p","e",":"," ">>,
     \* Log snippet: 
     log |-> <<"L","o","g"," ","s","n","i","p","p","e","t",":"," ">>,
     \* Retries: 
     retries |-> <<"R","e","t","r","i","e","s",":"," ">>,
     \* None
     none |-> <<"N","o","n","e">>,
     \* \nSIMILAR PAST FAILURES (
     similar |-> <<"\n","S","I","M","I","L","A","R"," ","P","A","S","T"," ","F","A","I","L","U",
         "R","E","S"," ","(">>,
     \* ):
     close |-> <<")",":">>,
     \* . 
     dot |-> <<"."," ">>,
     \*    Error: 
     sim_error |-> <<" "," "," ","E","r","r","o","r",":"," ">>,
     \*    Root cause: 
     root_cause |-> <<" "," "," ","R","o","o","t"," ","c","a","u","s","e",":"," ">>,
     \*    Fix applied: 
     fix |-> <<" "," "," ","F","i","x"," ","a","p","p","l","i","e","d",":"," ">>,
     \* \nTEST HISTORY (
     history |-> <<"\n","T","E","S","T"," ","H","I","S","T","O","R","Y"," ","(">>,
     \*  past failures)
     past |-> <<" ","p","a","s","t"," ","f","a","i","l","u","r","e","s",")">>,
     \* Resolved: 
     resolved |-> <<"R","e","s","o","l","v","e","d",":"," ">>,
     \* /
     slash |-> <<"/">>]

\* The prompt of _generate_root_cause_explanation (planner.py:123-133).
PROMPT_TEXT ==
     \* You are a test automation expert analyzing a test failure.\n\n
    [head |-> <<"Y","o","u"," ","a","r","e"," ","a"," ","t","e","s","t"," ","a","u","t","o","m",
         "a","t","i","o","n"," ","e","x","p","e","r","t"," ","a","n","a","l","y","z","i","n","g",
         " ","a"," ","t","e","s","t"," ","f","a","i","l","u","r","e",".","\n","\n">>,
     \* \n\nBased on this evidence, provide a clear, concise root cause explanation (2-3 sentences).\nFocus on:\n1. What specifically went wrong\n2. Why it likely happened\n3. Reference similar past failures if relevant\n\nRoot cause explanation:
     tail |-> <<"\n","\n","B","a","s","e","d"," ","o","n"," ","t","h","i","s"," ","e","v","i","d",
         "e","n","c","e",","," ","p","r","o","v","i","d","e"," ","a"," ","c","l","e","a","r",",",
         " ","c","o","n","c","i","s","e"," ","r","o","o","t"," ","c","a","u","s","e"," ","e","x",
         "p","l","a","n","a","t","i","o","n"," ","(","2","-","3"," ","s","e","n","t","e","n","c",
         "e","s",")",".","\n","F","o","c","u","s"," ","o","n",":","\n","1","."," ","W","h","a","t",
         " ","s","p","e","c","i","f","i","c","a","l","l","y"," ","w","e","n","t"," ","w","r","o",
         "n","g","\n","2","."," ","W","h","y"," ","i","t"," ","l","i","k","e","l","y"," ","h","a",
         "p","p","e","n","e","d","\n","3","."," ","R","e","f","e","r","e","n","c","e"," ","s","i",
         "m","i","l","a","r"," ","p","a","s","t"," ","f","a","i","l","u","r","e","s"," ","i","f",
         " ","r","e","l","e","v","a","n","t","\n","\n","R","o","o","t"," ","c","a","u","s","e"," ",
         "e","x","p","l","a","n","a","t","i","o","n",":">>]

\* The sample logs, as written by generate_sample_logs (stubs/generate_samples.py:9-65): the lines of each file.
SAMPLE_LOGS ==
    [test_login_timeout |-> <<
        \* [2024-01-15 10:23:45] INFO: Starting test: test_user_login
        <<"[","2","0","2","4","-","0","1","-","1","5"," ","1","0",":","2","3",":","4","5","]"," ",
          "I","N","F","O",":"," ","S","t","a","r","t","i","n","g"," ","t","e","s","t",":"," ","t",
          "e","s","t","_","u","s","e","r","_","l","o","g","i","n">>,
        \* [2024-01-15 10:23:45] INFO: Navigating to https://app.example.com/login
        <<"[","2","0","2","4","-","0","1","-","1","5"," ","1","0",":","2","3",":","4","5","]"," ",
          "I","N","F","O",":"," ","N","a","v","i","g","a","t","i","n","g"," ","t","o"," ","h","t",
          "t","p","s",":","/","/","a","p","p",".","e","x","a","m","p","l","e",".","c","o","m","/",
          "l","o","g","i","n">>,
        \* [2024-01-15 10:23:46] INFO: Page loaded successfully
        <<"[","2","0","2","4","-","0","1","-","1","5"," ","1","0",":","2","3",":","4","6","]"," ",
          "I","N","F","O",":"," ","P","a","g","e"," ","l","o","a","d","e","d"," ","s","u","c","c",
          "e","s","s","f","u","l","l","y">>,
        \* [2024-01-15 10:23:46] INFO: Entering username: test@example.com
        <<"[","2","0","2","4","-","0","1","-","1","5"," ","1","0",":","2","3",":","4","6","]"," ",
          "I","N","F","O",":"," ","E","n","t","e","r","i","n","g"," ","u","s","e","r","n","a","m",
          "e",":"," ","t","e","s","t","@","e","x","a","m","p","l","e",".","c","o","m">>,
        \* [2024-01-15 10:23:46] INFO: Entering password: ********
        <<"[","2","0","2","4","-","0","1","-","1","5"," ","1","0",":","2","3",":","4","6","]"," ",
          "I","N","F","O",":"," ","E","n","t","e","r","i","n","g"," ","p","a","s","s","w","o","r",
          "d",":"," ","*","*","*","*","*","*","*","*">>,
        \* [2024-01-15 10:23:46] INFO: Clicking login button
        <<"[","2","0","2","4","-","0","1","-","1","5"," ","1","0",":","2","3",":","4","6","]"," ",
          "I","N","F","O",":"," ","C","l","i","c","k","i","n","g"," ","l","o","g","i","n"," ","b",
          "u","t","t","o","n">>,
        \* [2024-01-15 10:23:47] INFO: Waiting for dashboard element: #user-dashboard
        <<"[","2","0","2","4","-","0","1","-","1","5"," ","1","0",":","2","3",":","4","7","]"," ",
          "I","N","F","O",":"," ","W","a","i","t","i","n","g"," ","f","o","r"," ","d","a","s","h",
          "b","o","a","r","d"," ","e","l","e","m","e","n","t",":"," ","#","u","s","e","r","-","d",
          "a","s","h","b","o","a","r","d">>,
        \* [2024-01-15 10:24:17] ERROR: TimeoutError: Timeout 30000ms exceeded.
        <<"[","2","0","2","4","-","0","1","-","1","5"," ","1","0",":","2","4",":","1","7","]"," ",
          "E","R","R","O","R",":"," ","T","i","m","e","o","u","t","E","r","r","o","r",":"," ","T",
          "i","m","e","o","u","t"," ","3","0","0","0","0","m","s"," ","e","x","c","e","e","d","e",
          "d",".">>,
        \* [2024-01-15 10:24:17] ERROR: waiting for selector "#user-dashboard" to be visible
        <<"[","2","0","2","4","-","0","1","-","1","5"," ","1","0",":","2","4",":","1","7","]"," ",
          "E","R","R","O","R",":"," ","w","a","i","t","i","n","g"," ","f","o","r"," ","s","e","l",
          "e","c","t","o","r"," ","\"","#","u","s","e","r","-","d","a","s","h","b","o","a","r","d",
          "\""," ","t","o"," ","b","e"," ","v","i","s","i","b","l","e">>,
        \* [2024-01-15 10:24:17] ERROR: selector resolved to hidden <div id="user-dashboard" style="display: none">
        <<"[","2","0","2","4","-","0","1","-","1","5"," ","1","0",":","2","4",":","1","7","]"," ",
          "E","R","R","O","R",":"," ","s","e","l","e","c","t","o","r"," ","r","e","s","o","l","v",
          "e","d"," ","t","o"," ","h","i","d","d","e","n"," ","<","d","i","v"," ","i","d","=","\"",
          "u","s","e","r","-","d","a","s","h","b","o","a","r","d","\""," ","s","t","y","l","e","=",
          "\"","d","i","s","p","l","a","y",":"," ","n","o","n","e","\"",">">>,
        \* [2024-01-15 10:24:17] FAIL: test_user_login - FAILED after 32s
        <<"[","2","0","2","4","-","0","1","-","1","5"," ","1","0",":","2","4",":","1","7","]"," ",
          "F","A","I","L",":"," ","t","e","s","t","_","u","s","e","r","_","l","o","g","i","n"," ",
          "-"," ","F","A","I","L","E","D"," ","a","f","t","e","r"," ","3","2","s">>,
        \* [2024-01-15 10:24:17] INFO: Screenshot saved: login_timeout_20240115.png
        <<"[","2","0","2","4","-","0","1","-","1","5"," ","1","0",":","2","4",":","1","7","]"," ",
          "I","N","F","O",":"," ","S","c","r","e","e","n","s","h","o","t"," ","s","a","v","e","d",
          ":"," ","l","o","g","i","n","_","t","i","m","e","o","u","t","_","2","0","2","4","0","1",
          "1","5",".","p","n","g">>
     >>,
     test_selector_changed |-> <<
        \* [2024-01-15 14:32:11] INFO: Starting test: test_add_to_cart
        <<"[","2","0","2","4","-","0","1","-","1","5"," ","1","4",":","3","2",":","1","1","]"," ",
          "I","N","F","O",":"," ","S","t","a","r","t","i","n","g"," ","t","e","s","t",":"," ","t",
          "e","s","t","_","a","d","d","_","t","o","_","c","a","r","t">>,
        \* [2024-01-15 14:32:11] INFO: Navigating to https://shop.example.com/products/123
        <<"[","2","0","2","4","-","0","1","-","1","5"," ","1","4",":","3","2",":","1","1","]"," ",
          "I","N","F","O",":"," ","N","a","v","i","g","a","t","i","n","g"," ","t","o"," ","h","t",
          "t","p","s",":","/","/","s","h","o","p",".","e","x","a","m","p","l","e",".","c","o","m",
          "/","p","r","o","d","u","c","t","s","/","1","2","3">>,
        \* [2024-01-15 14:32:12] INFO: Product page loaded
        <<"[","2","0","2","4","-","0","1","-","1","5"," ","1","4",":","3","2",":","1","2","]"," ",
          "I","N","F","O",":"," ","P","r","o","d","u","c","t"," ","p","a","g","e"," ","l","o","a",
          "d","e","d">>,
        \* [2024-01-15 14:32:12] INFO: Searching for add to cart button: button[data-test-id="add-cart"]
        <<"[","2","0","2","4","-","0","1","-","1","5"," ","1","4",":","3","2",":","1","2","]"," ",
          "I","N","F","O",":"," ","S","e","a","r","c","h","i","n","g"," ","f","o","r"," ","a","d",
          "d"," ","t","o"," ","c","a","r","t"," ","b","u","t","t","o","n",":"," ","b","u","t","t",
          "o","n","[","d","a","t","a","-","t","e","s","t","-","i","d","=","\"","a","d","d","-","c",
          "a","r","t","\"","]">>,
        \* [2024-01-15 14:32:42] ERROR: TimeoutError: Timeout 30000ms exceeded.
        <<"[","2","0","2","4","-","0","1","-","1","5"," ","1","4",":","3","2",":","4","2","]"," ",
          "E","R","R","O","R",":"," ","T","i","m","e","o","u","t","E","r","r","o","r",":"," ","T",
          "i","m","e","o","u","t"," ","3","0","0","0","0","m","s"," ","e","x","c","e","e","d","e",
          "d",".">>,
        \* [2024-01-15 14:32:42] ERROR: waiting for selector "button[data-test-id='add-cart']"
        <<"[","2","0","2","4","-","0","1","-","1","5"," ","1","4",":","3","2",":","4","2","]"," ",
          "E","R","R","O","R",":"," ","w","a","i","t","i","n","g"," ","f","o","r"," ","s","e","l",
          "e","c","t","o","r"," ","\"","b","u","t","t","o","n","[","d","a","t","a","-","t","e","s",
          "t","-","i","d","=","'","a","d","d","-","c","a","r","t","'","]","\"">>,
        \* [2024-01-15 14:32:42] ERROR: Expected element not found on page
        <<"[","2","0","2","4","-","0","1","-","1","5"," ","1","4",":","3","2",":","4","2","]"," ",
          "E","R","R","O","R",":"," ","E","x","p","e","c","t","e","d"," ","e","l","e","m","e","n",
          "t"," ","n","o","t"," ","f","o","u","n","d"," ","o","n"," ","p","a","g","e">>,
        \* [2024-01-15 14:32:42] INFO: Available buttons: [.btn-primary.add-to-cart, .btn-wishlist, .btn-share]
        <<"[","2","0","2","4","-","0","1","-","1","5"," ","1","4",":","3","2",":","4","2","]"," ",
          "I","N","F","O",":"," ","A","v","a","i","l","a","b","l","e"," ","b","u","t","t","o","n",
          "s",":"," ","[",".","b","t","n","-","p","r","i","m","a","r","y",".","a","d","d","-","t",
          "o","-","c","a","r","t",","," ",".","b","t","n","-","w","i","s","h","l","i","s","t",",",
          " ",".","b","t","n","-","s","h","a","r","e","]">>,
        \* [2024-01-15 14:32:42] FAIL: test_add_to_cart - FAILED after 31s
        <<"[","2","0","2","4","-","0","1","-","1","5"," ","1","4",":","3","2",":","4","2","]"," ",
          "F","A","I","L",":"," ","t","e","s","t","_","a","d","d","_","t","o","_","c","a","r","t",
          " ","-"," ","F","A","I","L","E","D"," ","a","f","t","e","r"," ","3","1","s">>,
        \* [2024-01-15 14:32:42] NOTE: Page structure appears to have changed
        <<"[","2","0","2","4","-","0","1","-","1","5"," ","1","4",":","3","2",":","4","2","]"," ",
          "N","O","T","E",":"," ","P","a","g","e"," ","s","t","r","u","c","t","u","r","e"," ","a",
          "p","p","e","a","r","s"," ","t","o"," ","h","a","v","e"," ","c","h","a","n","g","e","d">>
     >>,
     test_flaky_network |-> <<
        \* [2024-01-15 16:45:23] INFO: Starting test: test_api_product_search
        <<"[","2","0","2","4","-","0","1","-","1","5"," ","1","6",":","4","5",":","2","3","]"," ",
          "I","N","F","O",":"," ","S","t","a","r","t","i","n","g"," ","t","e","s","t",":"," ","t",
          "e","s","t","_","a","p","i","_","p","r","o","d","u","c","t","_","s","e","a","r","c","h">>,
        \* [2024-01-15 16:45:23] INFO: Sending GET request to /api/v1/products?q=laptop
        <<"[","2","0","2","4","-","0","1","-","1","5"," ","1","6",":","4","5",":","2","3","]"," ",
          "I","N","F","O",":"," ","S","e","n","d","i","n","g"," ","G","E","T"," ","r","e","q","u",
          "e","s","t"," ","t","o"," ","/","a","p","i","/","v","1","/","p","r","o","d","u","c","t",
          "s","?","q","=","l","a","p","t","o","p">>,
        \* [2024-01-15 16:45:28] ERROR: RequestError: connect ETIMEDOUT 10.0.1.42:443
        <<"[","2","0","2","4","-","0","1","-","1","5"," ","1","6",":","4","5",":","2","8","]"," ",
          "E","R","R","O","R",":"," ","R","e","q","u","e","s","t","E","r","r","o","r",":"," ","c",
          "o","n","n","e","c","t"," ","E","T","I","M","E","D","O","U","T"," ","1","0",".","0",".",
          "1",".","4","2",":","4","4","3">>,
        \* [2024-01-15 16:45:28] ERROR: Failed to establish connection to API server
        <<"[","2","0","2","4","-","0","1","-","1","5"," ","1","6",":","4","5",":","2","8","]"," ",
          "E","R","R","O","R",":"," ","F","a","i","l","e","d"," ","t","o"," ","e","s","t","a","b",
          "l","i","s","h"," ","c","o","n","n","e","c","t","i","o","n"," ","t","o"," ","A","P","I",
          " ","s","e","r","v","e","r">>,
        \* [2024-01-15 16:45:28] INFO: Retry attempt 1/3
        <<"[","2","0","2","4","-","0","1","-","1","5"," ","1","6",":","4","5",":","2","8","]"," ",
          "I","N","F","O",":"," ","R","e","t","r","y"," ","a","t","t","e","m","p","t"," ","1","/",
          "3">>,
        \* [2024-01-15 16:45:33] ERROR: RequestError: socket hang up
        <<"[","2","0","2","4","-","0","1","-","1","5"," ","1","6",":","4","5",":","3","3","]"," ",
          "E","R","R","O","R",":"," ","R","e","q","u","e","s","t","E","r","r","o","r",":"," ","s",
          "o","c","k","e","t"," ","h","a","n","g"," ","u","p">>,
        \* [2024-01-15 16:45:33] INFO: Retry attempt 2/3
        <<"[","2","0","2","4","-","0","1","-","1","5"," ","1","6",":","4","5",":","3","3","]"," ",
          "I","N","F","O",":"," ","R","e","t","r","y"," ","a","t","t","e","m","p","t"," ","2","/",
          "3">>,
        \* [2024-01-15 16:45:38] INFO: Request successful - Status 200
        <<"[","2","0","2","4","-","0","1","-","1","5"," ","1","6",":","4","5",":","3","8","]"," ",
          "I","N","F","O",":"," ","R","e","q","u","e","s","t"," ","s","u","c","c","e","s","s","f",
          "u","l"," ","-"," ","S","t","a","t","u","s"," ","2","0","0">>,
        \* [2024-01-15 16:45:38] PASS: test_api_product_search - PASSED after 15s (with retries)
        <<"[","2","0","2","4","-","0","1","-","1","5"," ","1","6",":","4","5",":","3","8","]"," ",
          "P","A","S","S",":"," ","t","e","s","t","_","a","p","i","_","p","r","o","d","u","c","t",
          "_","s","e","a","r","c","h"," ","-"," ","P","A","S","S","E","D"," ","a","f","t","e","r",
          " ","1","5","s"," ","(","w","i","t","h"," ","r","e","t","r","i","e","s",")">>,
        \* [2024-01-15 16:45:38] WARNING: Test exhibited flaky behavior - network instability detected
        <<"[","2","0","2","4","-","0","1","-","1","5"," ","1","6",":","4","5",":","3","8","]"," ",
          "W","A","R","N","I","N","G",":"," ","T","e","s","t"," ","e","x","h","i","b","i","t","e",
          "d"," ","f","l","a","k","y"," ","b","e","h","a","v","i","o","r"," ","-"," ","n","e","t",
          "w","o","r","k"," ","i","n","s","t","a","b","i","l","i","t","y"," ","d","e","t","e","c",
          "t","e","d">>
     >>,
     test_data_issue |-> <<
        \* [2024-01-15 18:12:05] INFO: Starting test: test_order_checkout
        <<"[","2","0","2","4","-","0","1","-","1","5"," ","1","8",":","1","2",":","0","5","]"," ",
          "I","N","F","O",":"," ","S","t","a","r","t","i","n","g"," ","t","e","s","t",":"," ","t",
          "e","s","t","_","o","r","d","e","r","_","c","h","e","c","k","o","u","t">>,
        \* [2024-01-15 18:12:05] INFO: Setting up test data: creating user account
        <<"[","2","0","2","4","-","0","1","-","1","5"," ","1","8",":","1","2",":","0","5","]"," ",
          "I","N","F","O",":"," ","S","e","t","t","i","n","g"," ","u","p"," ","t","e","s","t"," ",
          "d","a","t","a",":"," ","c","r","e","a","t","i","n","g"," ","u","s","e","r"," ","a","c",
          "c","o","u","n","t">>,
        \* [2024-01-15 18:12:06] INFO: User created: test_user_849201
        <<"[","2","0","2","4","-","0","1","-","1","5"," ","1","8",":","1","2",":","0","6","]"," ",
          "I","N","F","O",":"," ","U","s","e","r"," ","c","r","e","a","t","e","d",":"," ","t","e",
          "s","t","_","u","s","e","r","_","8","4","9","2","0","1">>,
        \* [2024-01-15 18:12:06] INFO: Adding product to cart: SKU-12345
        <<"[","2","0","2","4","-","0","1","-","1","5"," ","1","8",":","1","2",":","0","6","]"," ",
          "I","N","F","O",":"," ","A","d","d","i","n","g"," ","p","r","o","d","u","c","t"," ","t",
          "o"," ","c","a","r","t",":"," ","S","K","U","-","1","2","3","4","5">>,
        \* [2024-01-15 18:12:07] ERROR: DatabaseError: duplicate key value violates unique constraint "products_sku_key"
        <<"[","2","0","2","4","-","0","1","-","1","5"," ","1","8",":","1","2",":","0","7","]"," ",
          "E","R","R","O","R",":"," ","D","a","t","a","b","a","s","e","E","r","r","o","r",":"," ",
          "d","u","p","l","i","c","a","t","e"," ","k","e","y"," ","v","a","l","u","e"," ","v","i",
          "o","l","a","t","e","s"," ","u","n","i","q","u","e"," ","c","o","n","s","t","r","a","i",
          "n","t"," ","\"","p","r","o","d","u","c","t","s","_","s","k","u","_","k","e","y","\"">>,
        \* [2024-01-15 18:12:07] ERROR: DETAIL: Key (sku)=(SKU-12345) already exists.
        <<"[","2","0","2","4","-","0","1","-","1","5"," ","1","8",":","1","2",":","0","7","]"," ",
          "E","R","R","O","R",":"," ","D","E","T","A","I","L",":"," ","K","e","y"," ","(","s","k",
          "u",")","=","(","S","K","U","-","1","2","3","4","5",")"," ","a","l","r","e","a","d","y",
          " ","e","x","i","s","t","s",".">>,
        \* [2024-01-15 18:12:07] ERROR: Test data setup failed
        <<"[","2","0","2","4","-","0","1","-","1","5"," ","1","8",":","1","2",":","0","7","]"," ",
          "E","R","R","O","R",":"," ","T","e","s","t"," ","d","a","t","a"," ","s","e","t","u","p",
          " ","f","a","i","l","e","d">>,
        \* [2024-01-15 18:12:07] FAIL: test_order_checkout - FAILED after 2s
        <<"[","2","0","2","4","-","0","1","-","1","5"," ","1","8",":","1","2",":","0","7","]"," ",
          "F","A","I","L",":"," ","t","e","s","t","_","o","r","d","e","r","_","c","h","e","c","k",
          "o","u","t"," ","-"," ","F","A","I","L","E","D"," ","a","f","t","e","r"," ","2","s">>,
        \* [2024-01-15 18:12:07] INFO: Data cleanup initiated
        <<"[","2","0","2","4","-","0","1","-","1","5"," ","1","8",":","1","2",":","0","7","]"," ",
          "I","N","F","O",":"," ","D","a","t","a"," ","c","l","e","a","n","u","p"," ","i","n","i",
          "t","i","a","t","e","d">>,
        \* [2024-01-15 18:12:07] NOTE: Possible test data pollution from previous run
        <<"[","2","0","2","4","-","0","1","-","1","5"," ","1","8",":","1","2",":","0","7","]"," ",
          "N","O","T","E",":"," ","P","o","s","s","i","b","l","e"," ","t","e","s","t"," ","d","a",
          "t","a"," ","p","o","l","l","u","t","i","o","n"," ","f","r","o","m"," ","p","r","e","v",
          "i","o","u","s"," ","r","u","n">>
     >>]

\* Further log files the commands are run on: an empty file, a log of an environment problem, a log no keyword matches (with retries), a log without levels, and two logs of six error lines that differ in the sixth.
OTHER_LOGS ==
    [empty |-> <<
     >>,
     environment |-> <<
        \* [2024-01-16 09:00:00] INFO: Starting test: test_upload
        <<"[","2","0","2","4","-","0","1","-","1","6"," ","0","9",":","0","0",":","0","0","]"," ",
          "I","N","F","O",":"," ","S","t","a","r","t","i","n","g"," ","t","e","s","t",":"," ","t",
          "e","s","t","_","u","p","l","o","a","d">>,
        \* [2024-01-16 09:00:01] ERROR: Permission denied reading config.yaml
        <<"[","2","0","2","4","-","0","1","-","1","6"," ","0","9",":","0","0",":","0","1","]"," ",
          "E","R","R","O","R",":"," ","P","e","r","m","i","s","s","i","o","n"," ","d","e","n","i",
          "e","d"," ","r","e","a","d","i","n","g"," ","c","o","n","f","i","g",".","y","a","m","l">>
     >>,
     assertion |-> <<
        \* INFO: Starting test: test_totals
        <<"I","N","F","O",":"," ","S","t","a","r","t","i","n","g"," ","t","e","s","t",":"," ","t",
          "e","s","t","_","t","o","t","a","l","s">>,
        \* FAIL: expected 3 but got 4
        <<"F","A","I","L",":"," ","e","x","p","e","c","t","e","d"," ","3"," ","b","u","t"," ","g",
          "o","t"," ","4">>,
        \* INFO: Retry attempt 1/3
        <<"I","N","F","O",":"," ","R","e","t","r","y"," ","a","t","t","e","m","p","t"," ","1","/",
          "3">>,
        \* FAIL: expected 3 but got 4
        <<"F","A","I","L",":"," ","e","x","p","e","c","t","e","d"," ","3"," ","b","u","t"," ","g",
          "o","t"," ","4">>
     >>,
     no_levels |-> <<
        \* 
        <<>>,
        \*    
        <<" "," "," ">>,
        \* [2024-13-45 25:61:61] build finished with status 2
        <<"[","2","0","2","4","-","1","3","-","4","5"," ","2","5",":","6","1",":","6","1","]"," ",
          "b","u","i","l","d"," ","f","i","n","i","s","h","e","d"," ","w","i","t","h"," ","s","t",
          "a","t","u","s"," ","2">>
     >>,
     refused_then_timeout |-> <<
        \* INFO: Starting test: test_orders
        <<"I","N","F","O",":"," ","S","t","a","r","t","i","n","g"," ","t","e","s","t",":"," ","t",
          "e","s","t","_","o","r","d","e","r","s">>,
        \* FAIL: connect ECONNREFUSED 10.0.0.5:5432
        <<"F","A","I","L",":"," ","c","o","n","n","e","c","t"," ","E","C","O","N","N","R","E","F",
          "U","S","E","D"," ","1","0",".","0",".","0",".","5",":","5","4","3","2">>,
        \* FAIL: connect ECONNREFUSED 10.0.0.5:5432
        <<"F","A","I","L",":"," ","c","o","n","n","e","c","t"," ","E","C","O","N","N","R","E","F",
          "U","S","E","D"," ","1","0",".","0",".","0",".","5",":","5","4","3","2">>,
        \* FAIL: connect ECONNREFUSED 10.0.0.5:5432
        <<"F","A","I","L",":"," ","c","o","n","n","e","c","t"," ","E","C","O","N","N","R","E","F",
          "U","S","E","D"," ","1","0",".","0",".","0",".","5",":","5","4","3","2">>,
        \* FAIL: connect ECONNREFUSED 10.0.0.5:5432
        <<"F","A","I","L",":"," ","c","o","n","n","e","c","t"," ","E","C","O","N","N","R","E","F",
          "U","S","E","D"," ","1","0",".","0",".","0",".","5",":","5","4","3","2">>,
        \* FAIL: connect ECONNREFUSED 10.0.0.5:5432
        <<"F","A","I","L",":"," ","c","o","n","n","e","c","t"," ","E","C","O","N","N","R","E","F",
          "U","S","E","D"," ","1","0",".","0",".","0",".","5",":","5","4","3","2">>,
        \* ERROR: Timeout 5000ms exceeded
        <<"E","R","R","O","R",":"," ","T","i","m","e","o","u","t"," ","5","0","0","0","m","s"," ",
          "e","x","c","e","e","d","e","d">>
     >>,
     refused_then_gave_up |-> <<
        \* INFO: Starting test: test_orders
        <<"I","N","F","O",":"," ","S","t","a","r","t","i","n","g"," ","t","e","s","t",":"," ","t",
          "e","s","t","_","o","r","d","e","r","s">>,
        \* FAIL: connect ECONNREFUSED 10.0.0.5:5432
        <<"F","A","I","L",":"," ","c","o","n","n","e","c","t"," ","E","C","O","N","N","R","E","F",
          "U","S","E","D"," ","1","0",".","0",".","0",".","5",":","5","4","3","2">>,
        \* FAIL: connect ECONNREFUSED 10.0.0.5:5432
        <<"F","A","I","L",":"," ","c","o","n","n","e","c","t"," ","E","C","O","N","N","R","E","F",
          "U","S","E","D"," ","1","0",".","0",".","0",".","5",":","5","4","3","2">>,
        \* FAIL: connect ECONNREFUSED 10.0.0.5:5432
        <<"F","A","I","L",":"," ","c","o","n","n","e","c","t"," ","E","C","O","N","N","R","E","F",
          "U","S","E","D"," ","1","0",".","0",".","0",".","5",":","5","4","3","2">>,
        \* FAIL: connect ECONNREFUSED 10.0.0.5:5432
        <<"F","A","I","L",":"," ","c","o","n","n","e","c","t"," ","E","C","O","N","N","R","E","F",
          "U","S","E","D"," ","1","0",".","0",".","0",".","5",":","5","4","3","2">>,
        \* FAIL: connect ECONNREFUSED 10.0.0.5:5432
        <<"F","A","I","L",":"," ","c","o","n","n","e","c","t"," ","E","C","O","N","N","R","E","F",
          "U","S","E","D"," ","1","0",".","0",".","0",".","5",":","5","4","3","2">>,
        \* ERROR: giving up
        <<"E","R","R","O","R",":"," ","g","i","v","i","n","g"," ","u","p">>
     >>]

\* Texts the LLM collaborator may answer with (llm.complete(prompt).text): an explanation with surrounding whitespace, the empty text, and whitespace only.
LLM_TEXT ==
    [answers |-> <<
        \*  The selector changed.\n
        <<" ","T","h","e"," ","s","e","l","e","c","t","o","r"," ","c","h","a","n","g","e","d",".",
          "\n">>,
        \* 
        <<>>,
        \*  \n	
        <<" ","\n","\t">>
     >>]

\* Words the texts handed to the classifier are made of: keywords of the five categories in several spellings, and words that are no keyword.
WORDS ==
    [all |-> <<
        \* Timeout
        <<"T","i","m","e","o","u","t">>,
        \* selector
        <<"s","e","l","e","c","t","o","r">>,
        \* element not found
        <<"e","l","e","m","e","n","t"," ","n","o","t"," ","f","o","u","n","d">>,
        \* ECONNREFUSED
        <<"E","C","O","N","N","R","E","F","U","S","E","D">>,
        \* Duplicate
        <<"D","u","p","l","i","c","a","t","e">>,
        \* permission
        <<"p","e","r","m","i","s","s","i","o","n">>,
        \* exceeded
        <<"e","x","c","e","e","d","e","d">>,
        \* assert
        <<"a","s","s","e","r","t">>
     >>,
     \* test_case
     test |-> <<"t","e","s","t","_","c","a","s","e">>,
     \*  
     space |-> <<" ">>]

\* Lines the texts handed to the parser are made of: malformed lines (empty, blank, no timestamp and no level, impossible date, impossible time, a start line without a test name) and well-formed ones.
LOG_LINES ==
    [all |-> <<
        \* 
        <<>>,
        \*    
        <<" "," "," ">>,
        \* something went wrong
        <<"s","o","m","e","t","h","i","n","g"," ","w","e","n","t"," ","w","r","o","n","g">>,
        \* [2024-02-30 10:00:00] reading config
        <<"[","2","0","2","4","-","0","2","-","3","0"," ","1","0",":","0","0",":","0","0","]"," ",
          "r","e","a","d","i","n","g"," ","c","o","n","f","i","g">>,
        \* [2024-01-15 25:61:00] PASS: step done
        <<"[","2","0","2","4","-","0","1","-","1","5"," ","2","5",":","6","1",":","0","0","]"," ",
          "P","A","S","S",":"," ","s","t","e","p"," ","d","o","n","e">>,
        \* [2024-01-15 10:00:01] Starting test: login
        <<"[","2","0","2","4","-","0","1","-","1","5"," ","1","0",":","0","0",":","0","1","]"," ",
          "S","t","a","r","t","i","n","g"," ","t","e","s","t",":"," ","l","o","g","i","n">>,
        \* [2024-01-15 10:00:00] INFO: Starting test: test_login
        <<"[","2","0","2","4","-","0","1","-","1","5"," ","1","0",":","0","0",":","0","0","]"," ",
          "I","N","F","O",":"," ","S","t","a","r","t","i","n","g"," ","t","e","s","t",":"," ","t",
          "e","s","t","_","l","o","g","i","n">>,
        \* ERROR: Timeout 30000ms exceeded after 30s
        <<"E","R","R","O","R",":"," ","T","i","m","e","o","u","t"," ","3","0","0","0","0","m","s",
          " ","e","x","c","e","e","d","e","d"," ","a","f","t","e","r"," ","3","0","s">>,
        \* NOTE: Retry attempt 1
        <<"N","O","T","E",":"," ","R","e","t","r","y"," ","a","t","t","e","m","p","t"," ","1">>,
        \* ERROR: Selector #login missing, Network down
        <<"E","R","R","O","R",":"," ","S","e","l","e","c","t","o","r"," ","#","l","o","g","i","n",
          " ","m","i","s","s","i","n","g",","," ","N","e","t","w","o","r","k"," ","d","o","w","n">>,
        \* FAIL: Database connection lost after 45s
        <<"F","A","I","L",":"," ","D","a","t","a","b","a","s","e"," ","c","o","n","n","e","c","t",
          "i","o","n"," ","l","o","s","t"," ","a","f","t","e","r"," ","4","5","s">>,
        \* ERROR: Duplicate Key in users
        <<"E","R","R","O","R",":"," ","D","u","p","l","i","c","a","t","e"," ","K","e","y"," ","i",
          "n"," ","u","s","e","r","s">>,
        \* FAIL: expected 3 but got 4
        <<"F","A","I","L",":"," ","e","x","p","e","c","t","e","d"," ","3"," ","b","u","t"," ","g",
          "o","t"," ","4">>,
        \* Starting test: my_test_login, retest
        <<"S","t","a","r","t","i","n","g"," ","t","e","s","t",":"," ","m","y","_","t","e","s","t",
          "_","l","o","g","i","n",","," ","r","e","t","e","s","t">>
     >>,
     \* \n
     newline |-> <<"\n">>]

\* The defaults the parser documents, and the tokens whose absence leaves a field unmatched.
DOCUMENTED ==
     \* unknown_test
    [unknown_test |-> <<"u","n","k","n","o","w","n","_","t","e","s","t">>,
     \* Unknown failure
     unknown_failure |-> <<"U","n","k","n","o","w","n"," ","f","a","i","l","u","r","e">>,
     \* INFO
     info |-> <<"I","N","F","O">>,
     \* test_
     test_ |-> <<"t","e","s","t","_">>,
     error_tokens |-> <<
        \* ERROR
        <<"E","R","R","O","R">>,
        \* FAIL
        <<"F","A","I","L">>
     >>,
     level_tokens |-> <<
        \* INFO
        <<"I","N","F","O">>,
        \* ERROR
        <<"E","R","R","O","R">>,
        \* FAIL
        <<"F","A","I","L">>,
        \* PASS
        <<"P","A","S","S">>,
        \* WARNING
        <<"W","A","R","N","I","N","G">>,
        \* NOTE
        <<"N","O","T","E">>
     >>,
     \* after 
     after |-> <<"a","f","t","e","r"," ">>,
     \* retry attempt
     retry_attempt |-> <<"r","e","t","r","y"," ","a","t","t","e","m","p","t">>,
     \* [
     bracket |-> <<"[">>,
     \* Starting test:
     starting_test |-> <<"S","t","a","r","t","i","n","g"," ","t","e","s","t",":">>,
     \* test
     test |-> <<"t","e","s","t">>,
     error_types |-> <<
        \* TimeoutError
        <<"T","i","m","e","o","u","t","E","r","r","o","r">>,
        \* SelectorError
        <<"S","e","l","e","c","t","o","r","E","r","r","o","r">>,
        \* NetworkError
        <<"N","e","t","w","o","r","k","E","r","r","o","r">>,
        \* DatabaseError
        <<"D","a","t","a","b","a","s","e","E","r","r","o","r">>
     >>,
     timeout_words |-> <<
        \* timeout
        <<"t","i","m","e","o","u","t">>
     >>,
     selector_words |-> <<
        \* selector
        <<"s","e","l","e","c","t","o","r">>,
        \* element not found
        <<"e","l","e","m","e","n","t"," ","n","o","t"," ","f","o","u","n","d">>
     >>,
     network_words |-> <<
        \* connection
        <<"c","o","n","n","e","c","t","i","o","n">>,
        \* network
        <<"n","e","t","w","o","r","k">>
     >>,
     database_words |-> <<
        \* database
        <<"d","a","t","a","b","a","s","e">>,
        \* duplicate key
        <<"d","u","p","l","i","c","a","t","e"," ","k","e","y">>
     >>,
     \*  
     space |-> <<" ">>,
     \* after 32s
     after_32s |-> <<"a","f","t","e","r"," ","3","2","s">>]

\* SAMPLE_HISTORICAL_FAILURES (models.py:171-227), as HistoricalFailure records.
SAMPLE_HISTORICAL_FAILURES ==
  <<
    \* test_user_login: TimeoutError: selector '#user-dashboard' not visible
    [test_name |-> <<"t","e","s","t","_","u","s","e","r","_","l","o","g","i","n">>,
     error_message |-> <<"T","i","m","e","o","u","t","E","r","r","o","r",":"," ","s","e","l","e",
            "c","t","o","r"," ","'","#","u","s","e","r","-","d","a","s","h","b","o","a","r","d",
            "'"," ","n","o","t"," ","v","i","s","i","b","l","e">>,
     error_type |-> <<<<"T","i","m","e","o","u","t","E","r","r","o","r">>>>,
     \* waiting for selector '#user-dashboard' to be visible. Element is hidden.
     log_snippet |-> <<"w","a","i","t","i","n","g"," ","f","o","r"," ","s","e","l","e","c","t","o",
            "r"," ","'","#","u","s","e","r","-","d","a","s","h","b","o","a","r","d","'"," ","t",
            "o"," ","b","e"," ","v","i","s","i","b","l","e","."," ","E","l","e","m","e","n","t",
            " ","i","s"," ","h","i","d","d","e","n",".">>,
     timestamp |-> [year |-> 2024, month |-> 1, day |-> 10, hour |-> 10, minute |-> 0, second |-> 0, microsecond |-> 0],
     duration_seconds |-> <<32>>,
     retry_count |-> 0,
     artifacts |-> <<<<"l","o","g","i","n","_","f","a","i","l",".","p","n","g">>>>,
     resolution |-> Some(
         \* Dashboard renders with display:none initially, needs animation time
         [root_cause |-> <<"D","a","s","h","b","o","a","r","d"," ","r","e","n","d","e","r","s"," ",
            "w","i","t","h"," ","d","i","s","p","l","a","y",":","n","o","n","e"," ","i","n","i",
            "t","i","a","l","l","y",","," ","n","e","e","d","s"," ","a","n","i","m","a","t","i",
            "o","n"," ","t","i","m","e">>,
          classification |-> "TIMEOUT",
          \* Increased wait timeout to 60s and added waitForLoadState('networkidle')
          fix_applied |-> <<"I","n","c","r","e","a","s","e","d"," ","w","a","i","t"," ","t","i",
            "m","e","o","u","t"," ","t","o"," ","6","0","s"," ","a","n","d"," ","a","d","d","e",
            "d"," ","w","a","i","t","F","o","r","L","o","a","d","S","t","a","t","e","(","'","n",
            "e","t","w","o","r","k","i","d","l","e","'",")">>,
          fixed_by |-> <<<<"e","n","g","i","n","e","e","r","@","e","x","a","m","p","l","e",".","c","o","m">>>>,
          fixed_at |-> <<[year |-> 2024, month |-> 1, day |-> 10, hour |-> 14, minute |-> 0, second |-> 0, microsecond |-> 0]>>,
          ticket_reference |-> <<>>,
          confidence |-> 950]),
     ci_run_id |-> <<>>, branch |-> <<>>, commit_sha |-> <<>>,
     flaky_score |-> 200],
    \* test_add_to_cart: Element with selector button[data-test-id='add-cart'] not found
    [test_name |-> <<"t","e","s","t","_","a","d","d","_","t","o","_","c","a","r","t">>,
     error_message |-> <<"E","l","e","m","e","n","t"," ","w","i","t","h"," ","s","e","l","e","c",
            "t","o","r"," ","b","u","t","t","o","n","[","d","a","t","a","-","t","e","s","t","-",
            "i","d","=","'","a","d","d","-","c","a","r","t","'","]"," ","n","o","t"," ","f","o",
            "u","n","d">>,
     error_type |-> <<<<"S","e","l","e","c","t","o","r","E","r","r","o","r">>>>,
     \* Available buttons: .btn-primary.add-to-cart. Test selector no longer matches.
     log_snippet |-> <<"A","v","a","i","l","a","b","l","e"," ","b","u","t","t","o","n","s",":"," ",
            ".","b","t","n","-","p","r","i","m","a","r","y",".","a","d","d","-","t","o","-","c",
            "a","r","t","."," ","T","e","s","t"," ","s","e","l","e","c","t","o","r"," ","n","o",
            " ","l","o","n","g","e","r"," ","m","a","t","c","h","e","s",".">>,
     timestamp |-> [year |-> 2024, month |-> 1, day |-> 12, hour |-> 15, minute |-> 30, second |-> 0, microsecond |-> 0],
     duration_seconds |-> <<31>>,
     retry_count |-> 0,
     artifacts |-> <<>>,
     resolution |-> Some(
         \* UI refactor changed data-test-id to class-based selector
         [root_cause |-> <<"U","I"," ","r","e","f","a","c","t","o","r"," ","c","h","a","n","g","e",
            "d"," ","d","a","t","a","-","t","e","s","t","-","i","d"," ","t","o"," ","c","l","a",
            "s","s","-","b","a","s","e","d"," ","s","e","l","e","c","t","o","r">>,
          classification |-> "SELECTOR",
          \* Updated selector to .btn-primary.add-to-cart
          fix_applied |-> <<"U","p","d","a","t","e","d"," ","s","e","l","e","c","t","o","r"," ",
            "t","o"," ",".","b","t","n","-","p","r","i","m","a","r","y",".","a","d","d","-","t",
            "o","-","c","a","r","t">>,
          fixed_by |-> <<<<"q","a","@","e","x","a","m","p","l","e",".","c","o","m">>>>,
          fixed_at |-> <<>>,
          ticket_reference |-> <<<<"J","I","R","A","-","1","2","3","4">>>>,
          confidence |-> 1000]),
     ci_run_id |-> <<>>, branch |-> <<>>, commit_sha |-> <<>>,
     flaky_score |-> 0],
    \* test_api_search: RequestError: connect ETIMEDOUT
    [test_name |-> <<"t","e","s","t","_","a","p","i","_","s","e","a","r","c","h">>,
     error_message |-> <<"R","e","q","u","e","s","t","E","r","r","o","r",":"," ","c","o","n","n",
            "e","c","t"," ","E","T","I","M","E","D","O","U","T">>,
     error_type |-> <<<<"N","e","t","w","o","r","k","E","r","r","o","r">>>>,
     \* Failed to connect to API. Succeeded on retry 2/3.
     log_snippet |-> <<"F","a","i","l","e","d"," ","t","o"," ","c","o","n","n","e","c","t"," ","t",
            "o"," ","A","P","I","."," ","S","u","c","c","e","e","d","e","d"," ","o","n"," ","r",
            "e","t","r","y"," ","2","/","3",".">>,
     timestamp |-> [year |-> 2024, month |-> 1, day |-> 13, hour |-> 9, minute |-> 15, second |-> 0, microsecond |-> 0],
     duration_seconds |-> <<15>>,
     retry_count |-> 2,
     artifacts |-> <<>>,
     resolution |-> Some(
         \* Intermittent network latency in CI environment
         [root_cause |-> <<"I","n","t","e","r","m","i","t","t","e","n","t"," ","n","e","t","w","o",
            "r","k"," ","l","a","t","e","n","c","y"," ","i","n"," ","C","I"," ","e","n","v","i",
            "r","o","n","m","e","n","t">>,
          classification |-> "NETWORK",
          \* Added retry logic with exponential backoff
          fix_applied |-> <<"A","d","d","e","d"," ","r","e","t","r","y"," ","l","o","g","i","c",
            " ","w","i","t","h"," ","e","x","p","o","n","e","n","t","i","a","l"," ","b","a","c",
            "k","o","f","f">>,
          fixed_by |-> <<>>,
          fixed_at |-> <<>>,
          ticket_reference |-> <<>>,
          confidence |-> 700]),
     ci_run_id |-> <<>>, branch |-> <<>>, commit_sha |-> <<>>,
     flaky_score |-> 850]
  >>

\* Further records a failure database may hold: an unresolved failure of
\* test_user_login, one resolved by the same fix as the first sample, and an
\* unresolved failure of another test.
OTHER_FAILURES ==
  <<
    \* test_user_login: TimeoutError: login form not ready
    [test_name |-> <<"t","e","s","t","_","u","s","e","r","_","l","o","g","i","n">>,
     error_message |-> <<"T","i","m","e","o","u","t","E","r","r","o","r",":"," ","l","o","g","i",
            "n"," ","f","o","r","m"," ","n","o","t"," ","r","e","a","d","y">>,
     error_type |-> <<<<"T","i","m","e","o","u","t","E","r","r","o","r">>>>,
     \* timed out
     log_snippet |-> <<"t","i","m","e","d"," ","o","u","t">>,
     timestamp |-> [year |-> 2024, month |-> 1, day |-> 11, hour |-> 9, minute |-> 0, second |-> 0, microsecond |-> 0],
     duration_seconds |-> <<30>>,
     retry_count |-> 1,
     artifacts |-> <<>>,
     resolution |-> None,
     ci_run_id |-> <<>>, branch |-> <<>>, commit_sha |-> <<>>,
     flaky_score |-> 500],
    \* test_user_login: Timeout waiting for dashboard
    [test_name |-> <<"t","e","s","t","_","u","s","e","r","_","l","o","g","i","n">>,
     error_message |-> <<"T","i","m","e","o","u","t"," ","w","a","i","t","i","n","g"," ","f","o",
            "r"," ","d","a","s","h","b","o","a","r","d">>,
     error_type |-> <<<<"T","i","m","e","o","u","t","E","r","r","o","r">>>>,
     \* hidden
     log_snippet |-> <<"h","i","d","d","e","n">>,
     timestamp |-> [year |-> 2024, month |-> 1, day |-> 14, hour |-> 9, minute |-> 0, second |-> 0, microsecond |-> 0],
     duration_seconds |-> <<32>>,
     retry_count |-> 0,
     artifacts |-> <<>>,
     resolution |-> Some(
         \* Slow render
         [root_cause |-> <<"S","l","o","w"," ","r","e","n","d","e","r">>,
          classification |-> "TIMEOUT",
          \* Increased wait timeout to 60s and added waitForLoadState('networkidle')
          fix_applied |-> <<"I","n","c","r","e","a","s","e","d"," ","w","a","i","t"," ","t","i",
            "m","e","o","u","t"," ","t","o"," ","6","0","s"," ","a","n","d"," ","a","d","d","e",
            "d"," ","w","a","i","t","F","o","r","L","o","a","d","S","t","a","t","e","(","'","n",
            "e","t","w","o","r","k","i","d","l","e","'",")">>,
          fixed_by |-> <<>>,
          fixed_at |-> <<>>,
          ticket_reference |-> <<>>,
          confidence |-> 900]),
     ci_run_id |-> <<>>, branch |-> <<>>, commit_sha |-> <<>>,
     flaky_score |-> 300],
    \* test_order_checkout: duplicate key
    [test_name |-> <<"t","e","s","t","_","o","r","d","e","r","_","c","h","e","c","k","o","u","t">>,
     error_message |-> <<"d","u","p","l","i","c","a","t","e"," ","k","e","y">>,
     error_type |-> <<<<"D","a","t","a","b","a","s","e","E","r","r","o","r">>>>,
     \* sku exists
     log_snippet |-> <<"s","k","u"," ","e","x","i","s","t","s">>,
     timestamp |-> [year |-> 2024, month |-> 1, day |-> 14, hour |-> 18, minute |-> 0, second |-> 0, microsecond |-> 0],
     duration_seconds |-> <<>>,
     retry_count |-> 0,
     artifacts |-> <<>>,
     resolution |-> None,
     ci_run_id |-> <<>>, branch |-> <<>>, commit_sha |-> <<>>,
     flaky_score |-> 0]
  >>

(***************************************************************************)
(* ingestion/log_parser.py                                                 *)
(***************************************************************************)

\* TIMESTAMP_PATTERN, \[(\d{4}-\d{2}-\d{2} \d{2}:\d{2}:\d{2})\]: "d" stands for \d,
\* every other element for itself.
TIMESTAMP_PATTERN ==
    <<"[","d","d","d","d","-","d","d","-","d","d"," ","d","d",":","d","d",":","d","d","]">>

\* Whether TIMESTAMP_PATTERN matches t at index i.
TimestampAt(t, i) ==
    /\ i + Len(TIMESTAMP_PATTERN) - 1 <= Len(t)
    /\ \A j \in 1..Len(TIMESTAMP_PATTERN) :
          IF TIMESTAMP_PATTERN[j] = "d" THEN t[i + j - 1] \in Digits
          ELSE t[i + j - 1] = TIMESTAMP_PATTERN[j]

\* Days of a month of the proleptic Gregorian calendar (datetime's day check).
DaysInMonth(year, month) ==
    IF month = 2
    THEN (IF (year % 4 = 0 /\ year % 100 # 0) \/ year % 400 = 0 THEN 29 ELSE 28)
    ELSE IF month \in {4, 6, 9, 11} THEN 30 ELSE 31

\* datetime.strptime(g, '%Y-%m-%d %H:%M:%S') for a text g of the pattern's shape:
\* the datetime, or None where strptime raises ValueError.
strptime(g) ==
    LET year   == DigitsToInt(SubSeq(g, 1, 4))
        month  == DigitsToInt(SubSeq(g, 6, 7))
        day    == DigitsToInt(SubSeq(g, 9, 10))
        hour   == DigitsToInt(SubSeq(g, 12, 13))
        minute == DigitsToInt(SubSeq(g, 15, 16))
        second == DigitsToInt(SubSeq(g, 18, 19))
    IN  IF /\ year >= 1
           /\ month \in 1..12
           /\ day \in 1..DaysInMonth(year, month)
           /\ hour <= 23
           /\ minute <= 59
           /\ second <= 59
        THEN Some([year |-> year, month |-> month, day |-> day,
                   hour |-> hour, minute |-> minute, second |-> second,
                   microsecond |-> 0])
        ELSE None

\* _extract_timestamp building the datetime from the digits it matched, valid or not.
extract_timestamp_unchecked(line) ==
    LET i == MinIndex({j \in 1..Len(line) : TimestampAt(line, j)})
        g == SubSeq(line, i + 1, i + 19)
    IN  IF i = 0 THEN None
        ELSE Some([year   |-> DigitsToInt(SubSeq(g, 1, 4)),
                   month  |-> DigitsToInt(SubSeq(g, 6, 7)),
                   day    |-> DigitsToInt(SubSeq(g, 9, 10)),
                   hour   |-> DigitsToInt(SubSeq(g, 12, 13)),
                   minute |-> DigitsToInt(SubSeq(g, 15, 16)),
                   second |-> DigitsToInt(SubSeq(g, 18, 19)),
                   microsecond |-> 0])

\* LogParser._extract_timestamp: the first match of the pattern decides.
extract_timestamp(line) ==
    LET i == MinIndex({j \in 1..Len(line) : TimestampAt(line, j)})
    IN  IF i = 0 THEN None ELSE strptime(SubSeq(line, i + 1, i + 19))

\* The tokens of LEVEL_PATTERN that match t at index i (at most one does).
LevelsAt(t, i) == {k \in 1..Len(LEVEL_PATTERN.tokens) : MatchAt(t, LEVEL_PATTERN.tokens[k], i)}

\* LogParser._extract_level: the leftmost level token of the line, INFO if none.
extract_level(line) ==
    LET i == MinIndex({j \in 1..Len(line) : LevelsAt(line, j) # {}})
    IN  IF i = 0 THEN LEVEL_PATTERN.default
        ELSE LEVEL_PATTERN.tokens[MinIndex(LevelsAt(line, i))]

\* re.sub(TIMESTAMP_PATTERN, '', t), from index i on.
RECURSIVE RemoveTimestamps(_, _)
RemoveTimestamps(t, i) ==
    LET n == MinIndex({j \in i..Len(t) : TimestampAt(t, j)})
    IN  IF n = 0 THEN SubSeq(t, i, Len(t))
        ELSE SubSeq(t, i, n - 1) \o RemoveTimestamps(t, n + Len(TIMESTAMP_PATTERN))

\* The length of the match of '(INFO|ERROR|FAIL|PASS|WARNING|NOTE):' at index i, 0 if none.
LevelColonAt(t, i) ==
    LET ks == {k \in LevelsAt(t, i) :
                 MatchAt(t, <<":">>, i + Len(LEVEL_PATTERN.tokens[k]))}
    IN  IF ks = {} THEN 0 ELSE Len(LEVEL_PATTERN.tokens[MinIndex(ks)]) + 1

\* re.sub(f'{LEVEL_PATTERN}:', '', t), from index i on.
RECURSIVE RemoveLevels(_, _)
RemoveLevels(t, i) ==
    LET n == MinIndex({j \in i..Len(t) : LevelColonAt(t, j) > 0})
    IN  IF n = 0 THEN SubSeq(t, i, Len(t))
        ELSE SubSeq(t, i, n - 1) \o RemoveLevels(t, n + LevelColonAt(t, n))

\* LogParser._extract_message
extract_message(line) == Strip(RemoveLevels(RemoveTimestamps(line, 1), 1))

\* LogEntry of one line.
LogEntry(line) ==
    [timestamp |-> extract_timestamp(line),
     level     |-> extract_level(line),
     message   |-> extract_message(line),
     raw_line  |-> line]

\* LogParser._parse_log_lines: one entry per line that is not blank.
parse_log_lines(content) ==
    LET lines == SelectSeq(Split(content, "\n"), LAMBDA l : Strip(l) # <<>>)
    IN  [i \in 1..Len(lines) |-> LogEntry(lines[i])]

\* entry.level in ['ERROR', 'FAIL']
IsErrorLevel(level) ==
    \E k \in 1..Len(LEVEL_PATTERN.error_levels) : level = LEVEL_PATTERN.error_levels[k]

\* The first match of TEST_NAME_PATTERN, test[_\w]+, in t: <<>> if there is none.
SearchTestName(t) ==
    LET i == MinIndex({j \in 1..Len(t) : /\ MatchAt(t, PARSER_TEXT.test, j)
                                         /\ j + 4 <= Len(t)
                                         /\ IsWordChar(t[j + 4])})
        stop == MinIndex({j \in (i + 4)..Len(t) : ~IsWordChar(t[j])})
    IN  IF i = 0 THEN <<>>
        ELSE SubSeq(t, i, IF stop = 0 THEN Len(t) ELSE stop - 1)

\* LogParser._extract_test_name
extract_test_name(entries) ==
    LET i == MinIndex({k \in 1..Len(entries) :
                          /\ Contains(entries[k].message, PARSER_TEXT.starting_test)
                          /\ SearchTestName(entries[k].message) # <<>>})
    IN  IF i = 0 THEN PARSER_TEXT.unknown_test ELSE SearchTestName(entries[i].message)

\* [e.message for e in log_entries if e.level in ['ERROR', 'FAIL']]
ErrorLines(entries) ==
    LET errs == SelectSeq(entries, LAMBDA e : IsErrorLevel(e.level))
    IN  [i \in 1..Len(errs) |-> errs[i].message]

\* _extract_failure_message taking the last FAIL/ERROR entry.
extract_failure_message_last(entries) ==
    LET fail_entries == SelectSeq(entries, LAMBDA e : IsErrorLevel(e.level))
    IN  IF fail_entries # <<>> THEN fail_entries[Len(fail_entries)].message
        ELSE PARSER_TEXT.unknown_failure

\* LogParser._extract_failure_message
extract_failure_message(entries) ==
    LET fail_entries == SelectSeq(entries, LAMBDA e : IsErrorLevel(e.level))
    IN  IF fail_entries # <<>> THEN fail_entries[1].message ELSE PARSER_TEXT.unknown_failure

\* _classify_error_type asking for the selector keywords before "timeout".
parser_classify_selector_first(error_lines) ==
    LET error_text == Lower(Join(error_lines, <<" ">>))
    IN  IF \/ Contains(error_text, PARSER_TEXT.selector)
           \/ Contains(error_text, PARSER_TEXT.element_not_found)
        THEN Some(PARSER_TEXT.SelectorError)
        ELSE IF Contains(error_text, PARSER_TEXT.timeout) THEN Some(PARSER_TEXT.TimeoutError)
        ELSE IF \/ Contains(error_text, PARSER_TEXT.connection)
                \/ Contains(error_text, PARSER_TEXT.network)
             THEN Some(PARSER_TEXT.NetworkError)
        ELSE IF \/ Contains(error_text, PARSER_TEXT.database)
                \/ Contains(error_text, PARSER_TEXT.duplicate_key)
             THEN Some(PARSER_TEXT.DatabaseError)
        ELSE None

\* LogParser._classify_error_type
parser_classify_error_type(error_lines) ==
    LET error_text == Lower(Join(error_lines, <<" ">>))
    IN  IF Contains(error_text, PARSER_TEXT.timeout) THEN Some(PARSER_TEXT.TimeoutError)
        ELSE IF \/ Contains(error_text, PARSER_TEXT.selector)
                \/ Contains(error_text, PARSER_TEXT.element_not_found)
             THEN Some(PARSER_TEXT.SelectorError)
        ELSE IF \/ Contains(error_text, PARSER_TEXT.connection)
                \/ Contains(error_text, PARSER_TEXT.network)
             THEN Some(PARSER_TEXT.NetworkError)
        ELSE IF \/ Contains(error_text, PARSER_TEXT.database)
                \/ Contains(error_text, PARSER_TEXT.duplicate_key)
             THEN Some(PARSER_TEXT.DatabaseError)
        ELSE None

\* The number N of the first match of DURATION_PATTERN, after (\d+)s, in t; None if
\* there is no match.  float(N) is the integer N.
SearchDuration(t) ==
    LET DigitsEnd(j) ==    \* the last index of the run of digits that starts at j
            LET stop == MinIndex({k \in j..Len(t) : t[k] \notin Digits})
            IN  IF stop = 0 THEN Len(t) ELSE stop - 1
        i == MinIndex({j \in 1..Len(t) :
                          /\ MatchAt(t, PARSER_TEXT.after, j)
                          /\ j + 6 <= Len(t)
                          /\ t[j + 6] \in Digits
                          /\ MatchAt(t, PARSER_TEXT.s, DigitsEnd(j + 6) + 1)})
    IN  IF i = 0 THEN None ELSE Some(DigitsToInt(SubSeq(t, i + 6, DigitsEnd(i + 6))))

\* _extract_duration taking the last message that matches.
extract_duration_last(entries) ==
    LET matching == {k \in 1..Len(entries) : SearchDuration(entries[k].message) # None}
    IN  IF matching = {} THEN None
        ELSE SearchDuration(entries[CHOOSE k \in matching : \A j \in matching : j <= k].message)

\* LogParser._extract_duration
extract_duration(entries) ==
    LET i == MinIndex({k \in 1..Len(entries) : SearchDuration(entries[k].message) # None})
    IN  IF i = 0 THEN None ELSE SearchDuration(entries[i].message)

\* The words of one message that end in .png, .jpg or .jpeg.
ImageWords(message) ==
    SelectSeq(SplitWhitespace(message),
              LAMBDA w : \E k \in 1..Len(PARSER_TEXT.image_suffixes) :
                            EndsWith(w, PARSER_TEXT.image_suffixes[k]))

\* LogParser._extract_artifacts
RECURSIVE extract_artifacts(_)
extract_artifacts(entries) ==
    IF entries = <<>> THEN <<>>
    ELSE (IF Contains(Lower(Head(entries).message), PARSER_TEXT.screenshot)
          THEN ImageWords(Head(entries).message) ELSE <<>>)
         \o extract_artifacts(Tail(entries))

\* LogParser._count_retries
count_retries(entries) ==
    Cardinality({k \in 1..Len(entries) :
                    Contains(Lower(entries[k].message), PARSER_TEXT.retry_attempt)})

\* LogParser.parse_file, on the content read from the file.
parse_content(content) ==
    LET log_entries == parse_log_lines(content)
        error_lines == ErrorLines(log_entries)
    IN  [test_name        |-> extract_test_name(log_entries),
         failure_message  |-> extract_failure_message(log_entries),
         error_type       |-> parser_classify_error_type(error_lines),
         duration_seconds |-> extract_duration(log_entries),
         log_entries      |-> log_entries,
         error_lines      |-> error_lines,
         artifacts        |-> extract_artifacts(log_entries),
         retry_count      |-> count_retries(log_entries)]

\* get_context_window with a list in place of the set: the range of each
\* error one after the other, an entry repeated where two ranges overlap.
get_context_window_repeating(parsed, around_errors) ==
    LET n == Len(parsed.log_entries)
        error_indices == {i \in 1..n : IsErrorLevel(parsed.log_entries[i].level)}
        Max(a, b) == IF a > b THEN a ELSE b
        Min(a, b) == IF a < b THEN a ELSE b
        keys == UNION {{idx * (n + 1) + j :
                           j \in Max(1, idx - around_errors)..Min(n, idx + around_errors)} :
                       idx \in error_indices}
        order == SelectSeq([k \in 1..((n + 1) * (n + 1)) |-> k], LAMBDA k : k \in keys)
    IN  [k \in 1..Cardinality(keys) |-> parsed.log_entries[order[k] % (n + 1)]]

\* TestFailure.get_context_window
get_context_window(parsed, around_errors) ==
    LET n == Len(parsed.log_entries)
        error_indices == {i \in 1..n : IsErrorLevel(parsed.log_entries[i].level)}
        Max(a, b) == IF a > b THEN a ELSE b
        Min(a, b) == IF a < b THEN a ELSE b
        context_indices ==
            UNION {Max(1, idx - around_errors)..Min(n, idx + around_errors) :
                      idx \in error_indices}
        Sorted(S) == SelectSeq([i \in 1..n |-> i], LAMBDA i : i \in S)
    IN  [k \in 1..Cardinality(context_indices) |->
            parsed.log_entries[Sorted(context_indices)[k]]]

(***************************************************************************)
(* agent/models.py and agent/tools.py                                      *)
(***************************************************************************)

\* FailureType (models.py:13-21).
FailureType == {"TIMEOUT", "SELECTOR", "NETWORK", "DATA_SETUP", "ENVIRONMENT",
                "GENUINE_BUG", "UNKNOWN"}

\* IEEE-754 addition of two doubles, on thousandths: the sums of the score weights
\* that are not the double of their decimal are one unit off it
\* (0.4 + 0.2 = 0.6000000000000001, 0.7 + 0.1 = 0.7999999999999999, ...); every
\* other sum the scores form is exact.
FloatAdd(a, b) ==
    a + b + (CASE <<a, b>> \in {<<200, 100>>, <<400, 200>>, <<800, -200>>, <<800, -100>>} -> 1
               [] <<a, b>> \in {<<300, -100>>, <<700, 100>>, <<700, 200>>} -> -1
               [] OTHER -> 0)

FloatMin(a, b) == IF a < b THEN a ELSE b
FloatMax(a, b) == IF a > b THEN a ELSE b

\* any(word in error_text for word in words)
AnyWordIn(words, error_text) == \E k \in 1..Len(words) : Contains(error_text, words[k])

\* A flaky score that counts a retry only when there was exactly one.
calculate_flaky_score_one_retry(current_failure, history) ==
    LET s1 == IF current_failure.retry_count = 1 THEN FloatAdd(0, 400) ELSE 0
        s2 == IF Len(history) >= 3 THEN FloatAdd(s1, 300) ELSE s1
        s3 == IF \E k \in 1..Len(FLAKY_ERROR_TYPES.types) :
                     current_failure.error_type = Some(FLAKY_ERROR_TYPES.types[k])
              THEN FloatAdd(s2, 200) ELSE s2
        resolved_count == Cardinality({k \in 1..Len(history) : history[k].resolution # None})
        s4 == IF resolved_count > 0 /\ Len(history) > resolved_count
              THEN FloatAdd(s3, 100) ELSE s3
    IN  FloatMin(s4, 1000)

\* AgentTools.calculate_flaky_score
calculate_flaky_score(current_failure, history) ==
    LET s1 == IF current_failure.retry_count > 0 THEN FloatAdd(0, 400) ELSE 0
        s2 == IF Len(history) >= 3 THEN FloatAdd(s1, 300) ELSE s1
        s3 == IF \E k \in 1..Len(FLAKY_ERROR_TYPES.types) :
                     current_failure.error_type = Some(FLAKY_ERROR_TYPES.types[k])
              THEN FloatAdd(s2, 200) ELSE s2
        resolved_count == Cardinality({k \in 1..Len(history) : history[k].resolution # None})
        s4 == IF resolved_count > 0 /\ Len(history) > resolved_count
              THEN FloatAdd(s3, 100) ELSE s3
    IN  FloatMin(s4, 1000)

\* A classifier that tries the SELECTOR keywords before the TIMEOUT keywords.
classify_selector_first(failure) ==
    LET error_text == Lower(failure.error_message \o <<" ">> \o failure.log_snippet)
    IN  IF AnyWordIn(CLASSIFIER_WORDS.selector, error_text) THEN "SELECTOR"
        ELSE IF AnyWordIn(CLASSIFIER_WORDS.timeout, error_text) THEN "TIMEOUT"
        ELSE IF AnyWordIn(CLASSIFIER_WORDS.network, error_text) THEN "NETWORK"
        ELSE IF AnyWordIn(CLASSIFIER_WORDS.data_setup, error_text) THEN "DATA_SETUP"
        ELSE IF AnyWordIn(CLASSIFIER_WORDS.environment, error_text) THEN "ENVIRONMENT"
        ELSE "UNKNOWN"

\* AgentTools.classify_error_type
classify_error_type(failure) ==
    LET error_text == Lower(failure.error_message \o <<" ">> \o failure.log_snippet)
    IN  IF AnyWordIn(CLASSIFIER_WORDS.timeout, error_text) THEN "TIMEOUT"
        ELSE IF AnyWordIn(CLASSIFIER_WORDS.selector, error_text) THEN "SELECTOR"
        ELSE IF AnyWordIn(CLASSIFIER_WORDS.network, error_text) THEN "NETWORK"
        ELSE IF AnyWordIn(CLASSIFIER_WORDS.data_setup, error_text) THEN "DATA_SETUP"
        ELSE IF AnyWordIn(CLASSIFIER_WORDS.environment, error_text) THEN "ENVIRONMENT"
        ELSE "UNKNOWN"

\* Fix actions that also quote a resolution of confidence 0.7.
SimilarFixActionsFromThreshold(similar_failures) ==
    LET learnt == SelectSeq(Take(similar_failures, 2),
                            LAMBDA similar : /\ similar.resolution # None
                                             /\ similar.resolution[1].confidence >= 700)
    IN  [k \in 1..Len(learnt) |->
            ACTION_TEXT.apply_similar_fix \o learnt[k].resolution[1].fix_applied]

\* The "Apply similar fix" actions of suggest_actions (tools.py:112-117).
SimilarFixActions(similar_failures) ==
    LET learnt == SelectSeq(Take(similar_failures, 2),
                            LAMBDA similar : /\ similar.resolution # None
                                             /\ similar.resolution[1].confidence > 700)
    IN  [k \in 1..Len(learnt) |->
            ACTION_TEXT.apply_similar_fix \o learnt[k].resolution[1].fix_applied]

\* The type-specific actions of suggest_actions (tools.py:119-144).
TypeActions(failure_type, flaky_score) ==
    CASE failure_type = "TIMEOUT" ->
            <<ACTION_TEXT.timeout_1, ACTION_TEXT.timeout_2>>
            \o (IF flaky_score > 600 THEN <<ACTION_TEXT.timeout_flaky>> ELSE <<>>)
      [] failure_type = "SELECTOR" ->
            <<ACTION_TEXT.selector_1, ACTION_TEXT.selector_2, ACTION_TEXT.selector_3>>
      [] failure_type = "NETWORK" ->
            <<ACTION_TEXT.network_1, ACTION_TEXT.network_2>>
            \o (IF flaky_score > 700 THEN <<ACTION_TEXT.network_flaky>> ELSE <<>>)
      [] failure_type = "DATA_SETUP" ->
            <<ACTION_TEXT.data_1, ACTION_TEXT.data_2, ACTION_TEXT.data_3>>
      [] failure_type = "ENVIRONMENT" ->
            <<ACTION_TEXT.env_1, ACTION_TEXT.env_2>>
      [] OTHER -> <<>>

\* suggest_actions adding the generic actions whenever no fix and no type action was added.
suggest_actions_generic_after_quarantine(failure_type, flaky_score, similar_failures) ==
    LET typed == SimilarFixActions(similar_failures) \o TypeActions(failure_type, flaky_score)
        flaky == typed \o (IF flaky_score > 750 THEN <<ACTION_TEXT.quarantine>> ELSE <<>>)
        actions == IF typed = <<>>
                   THEN flaky \o <<ACTION_TEXT.generic_1, ACTION_TEXT.generic_2,
                                   ACTION_TEXT.generic_3>>
                   ELSE flaky
    IN  Take(actions, 5)

\* suggest_actions cutting the list to four actions.
suggest_actions_cut_to_four(failure_type, flaky_score, similar_failures) ==
    LET typed == SimilarFixActions(similar_failures) \o TypeActions(failure_type, flaky_score)
        flaky == typed \o (IF flaky_score > 750 THEN <<ACTION_TEXT.quarantine>> ELSE <<>>)
        actions == IF flaky = <<>>
                   THEN <<ACTION_TEXT.generic_1, ACTION_TEXT.generic_2, ACTION_TEXT.generic_3>>
                   ELSE flaky
    IN  Take(actions, 4)

\* suggest_actions without the cut to five actions.
suggest_actions_uncut(failure_type, flaky_score, similar_failures) ==
    LET typed == SimilarFixActions(similar_failures) \o TypeActions(failure_type, flaky_score)
        flaky == typed \o (IF flaky_score > 750 THEN <<ACTION_TEXT.quarantine>> ELSE <<>>)
    IN  IF flaky = <<>>
        THEN <<ACTION_TEXT.generic_1, ACTION_TEXT.generic_2, ACTION_TEXT.generic_3>>
        ELSE flaky

\* suggest_actions without its generic actions for an empty list.
suggest_actions_no_generic(failure_type, flaky_score, similar_failures) ==
    LET typed == SimilarFixActions(similar_failures) \o TypeActions(failure_type, flaky_score)
        flaky == typed \o (IF flaky_score > 750 THEN <<ACTION_TEXT.quarantine>> ELSE <<>>)
    IN  Take(flaky, 5)

\* AgentTools.suggest_actions
suggest_actions(failure_type, flaky_score, similar_failures) ==
    LET typed == SimilarFixActions(similar_failures) \o TypeActions(failure_type, flaky_score)
        flaky == typed \o (IF flaky_score > 750 THEN <<ACTION_TEXT.quarantine>> ELSE <<>>)
        actions == IF flaky = <<>>
                   THEN <<ACTION_TEXT.generic_1, ACTION_TEXT.generic_2, ACTION_TEXT.generic_3>>
                   ELSE flaky
    IN  Take(actions, 5)

\* The lines build_evidence_summary adds for the similar failures (tools.py:174-181).
RECURSIVE SimilarEvidence(_, _)
SimilarEvidence(similar, i) ==
    IF i > Len(similar) THEN <<>>
    ELSE <<IntToStr(i) \o EVIDENCE_TEXT.dot \o similar[i].test_name,
           EVIDENCE_TEXT.sim_error \o similar[i].error_message>>
         \o (IF similar[i].resolution # None
             THEN <<EVIDENCE_TEXT.root_cause \o similar[i].resolution[1].root_cause,
                    EVIDENCE_TEXT.fix \o similar[i].resolution[1].fix_applied>>
             ELSE <<>>)
         \o SimilarEvidence(similar, i + 1)

\* AgentTools.build_evidence_summary
build_evidence_summary(current_failure, similar_failures, history) ==
    LET resolved == Cardinality({k \in 1..Len(history) : history[k].resolution # None})
        evidence ==
            <<EVIDENCE_TEXT.current,
              EVIDENCE_TEXT.test \o current_failure.test_name,
              EVIDENCE_TEXT.error \o current_failure.error_message,
              EVIDENCE_TEXT.type \o (IF current_failure.error_type = None
                                     THEN EVIDENCE_TEXT.none
                                     ELSE current_failure.error_type[1]),
              EVIDENCE_TEXT.log \o current_failure.log_snippet,
              EVIDENCE_TEXT.retries \o IntToStr(current_failure.retry_count)>>
            \o (IF similar_failures # <<>>
                THEN <<EVIDENCE_TEXT.similar \o IntToStr(Len(similar_failures))
                       \o EVIDENCE_TEXT.close>>
                     \o SimilarEvidence(Take(similar_failures, 3), 1)
                ELSE <<>>)
            \o (IF history # <<>>
                THEN <<EVIDENCE_TEXT.history \o IntToStr(Len(history)) \o EVIDENCE_TEXT.past,
                       EVIDENCE_TEXT.resolved \o IntToStr(resolved) \o EVIDENCE_TEXT.slash
                       \o IntToStr(Len(history))>>
                ELSE <<>>)
    IN  Join(evidence, <<"\n">>)

(***************************************************************************)
(* agent/planner.py: the pure parts                                        *)
(***************************************************************************)

\* A rule-based explanation that adds the fix of the first similar failure that
\* has a resolution, wherever it is ranked.
rule_based_explanation_any_fix(failure, similar_failures, failure_type) ==
    LET base_explanation ==
            CASE failure_type = "TIMEOUT" ->
                    EXPLANATION_TEXT.the_test \o failure.test_name
                    \o EXPLANATION_TEXT.timeout_tail
              [] failure_type = "SELECTOR" -> EXPLANATION_TEXT.selector
              [] failure_type = "NETWORK" -> EXPLANATION_TEXT.network
              [] failure_type = "DATA_SETUP" -> EXPLANATION_TEXT.data_setup
              [] failure_type = "ENVIRONMENT" -> EXPLANATION_TEXT.environment
              [] OTHER -> EXPLANATION_TEXT.the_test \o failure.test_name
                          \o EXPLANATION_TEXT.failed_with \o failure.error_message
        resolved == SelectSeq(similar_failures, LAMBDA f : f.resolution # None)
    IN  IF resolved # <<>>
        THEN base_explanation \o EXPLANATION_TEXT.similar_fix
             \o resolved[1].resolution[1].fix_applied
        ELSE base_explanation

\* TriageAgent._rule_based_explanation
rule_based_explanation(failure, similar_failures, failure_type) ==
    LET base_explanation ==
            CASE failure_type = "TIMEOUT" ->
                    EXPLANATION_TEXT.the_test \o failure.test_name
                    \o EXPLANATION_TEXT.timeout_tail
              [] failure_type = "SELECTOR" -> EXPLANATION_TEXT.selector
              [] failure_type = "NETWORK" -> EXPLANATION_TEXT.network
              [] failure_type = "DATA_SETUP" -> EXPLANATION_TEXT.data_setup
              [] failure_type = "ENVIRONMENT" -> EXPLANATION_TEXT.environment
              [] OTHER -> EXPLANATION_TEXT.the_test \o failure.test_name
                          \o EXPLANATION_TEXT.failed_with \o failure.error_message
    IN  IF similar_failures # <<>> /\ similar_failures[1].resolution # None
        THEN base_explanation \o EXPLANATION_TEXT.similar_fix
             \o similar_failures[1].resolution[1].fix_applied
        ELSE base_explanation

\* The prompt built by _generate_root_cause_explanation (planner.py:123-133).
Prompt(evidence) == PROMPT_TEXT.head \o evidence \o PROMPT_TEXT.tail

\* A confidence that takes every resolved similar failure as evidence,
\* whatever the confidence of its resolution.
calculate_confidence_any_resolution(failure_type, similar_failures, flaky_score) ==
    LET resolved_similar == SelectSeq(similar_failures, LAMBDA f : f.resolution # None)
        c1 == IF resolved_similar # <<>> THEN FloatAdd(500, 300) ELSE 500
        c2 == IF failure_type = "UNKNOWN" THEN FloatAdd(c1, -200) ELSE c1
        c3 == IF flaky_score > 700 THEN FloatAdd(c2, -100) ELSE c2
    IN  FloatMax(100, FloatMin(1000, c3))

\* TriageAgent._calculate_confidence
calculate_confidence(failure_type, similar_failures, flaky_score) ==
    LET resolved_similar ==
            SelectSeq(similar_failures,
                      LAMBDA f : f.resolution # None /\ f.resolution[1].confidence > 700)
        c1 == IF resolved_similar # <<>> THEN FloatAdd(500, 300) ELSE 500
        c2 == IF failure_type = "UNKNOWN" THEN FloatAdd(c1, -200) ELSE c1
        c3 == IF flaky_score > 700 THEN FloatAdd(c2, -100) ELSE c2
    IN  FloatMax(100, FloatMin(1000, c3))

\* The HistoricalFailure built with a log snippet of every error line.
FailureOfParsedAllLines(parsed, now) ==
    [test_name        |-> parsed.test_name,
     error_message    |-> parsed.failure_message,
     error_type       |-> parsed.error_type,
     log_snippet      |-> Join(parsed.error_lines, <<"\n">>),
     timestamp        |-> now,
     duration_seconds |-> parsed.duration_seconds,
     retry_count      |-> parsed.retry_count,
     artifacts        |-> parsed.artifacts,
     resolution       |-> None,
     ci_run_id        |-> None,
     branch           |-> None,
     commit_sha       |-> None,
     flaky_score      |-> 0]

\* The HistoricalFailure that analyze_failure_file and the analyze command build
\* from a parsed log (planner.py:237-247, cli.py:60-70).
FailureOfParsed(parsed, now) ==
    [test_name        |-> parsed.test_name,
     error_message    |-> parsed.failure_message,
     error_type       |-> parsed.error_type,
     log_snippet      |-> Join(Take(parsed.error_lines, 5), <<"\n">>),
     timestamp        |-> now,
     duration_seconds |-> parsed.duration_seconds,
     retry_count      |-> parsed.retry_count,
     artifacts        |-> parsed.artifacts,
     resolution       |-> None,
     ci_run_id        |-> None,
     branch           |-> None,
     commit_sha       |-> None,
     flaky_score      |-> 0]


\* ---------------------------------------------------------------------------
\* The collaborators: the file system, the failure database, the LLM
\* ---------------------------------------------------------------------------

\* Largest number of records the failure database holds.
MaxRows == 4

\* Largest number of log files a batch run is given.
MaxFiles == 2

\* generate_sample_logs writes each sample stripped; the others are written
\* as they are.  A file that cannot be opened has readable = FALSE.
Files ==
    [name \in {"test_login_timeout.log", "test_selector_changed.log",
               "test_flaky_network.log", "test_data_issue.log", "empty.log",
               "environment.log", "assertion.log", "no_levels.log", "unreadable.log",
               "refused_then_timeout.log", "refused_then_gave_up.log"} |->
        CASE name = "test_login_timeout.log" ->
                [readable |-> TRUE,
                 content |-> Strip(Join(SAMPLE_LOGS.test_login_timeout, <<"\n">>))]
          [] name = "test_selector_changed.log" ->
                [readable |-> TRUE,
                 content |-> Strip(Join(SAMPLE_LOGS.test_selector_changed, <<"\n">>))]
          [] name = "test_flaky_network.log" ->
                [readable |-> TRUE,
                 content |-> Strip(Join(SAMPLE_LOGS.test_flaky_network, <<"\n">>))]
          [] name = "test_data_issue.log" ->
                [readable |-> TRUE,
                 content |-> Strip(Join(SAMPLE_LOGS.test_data_issue, <<"\n">>))]
          [] name = "empty.log" ->
                [readable |-> TRUE, content |-> Join(OTHER_LOGS.empty, <<"\n">>)]
          [] name = "environment.log" ->
                [readable |-> TRUE, content |-> Join(OTHER_LOGS.environment, <<"\n">>)]
          [] name = "assertion.log" ->
                [readable |-> TRUE, content |-> Join(OTHER_LOGS.assertion, <<"\n">>)]
          [] name = "no_levels.log" ->
                [readable |-> TRUE, content |-> Join(OTHER_LOGS.no_levels, <<"\n">>)]
          [] name = "refused_then_timeout.log" ->
                [readable |-> TRUE,
                 content |-> Join(OTHER_LOGS.refused_then_timeout, <<"\n">>)]
          [] name = "refused_then_gave_up.log" ->
                [readable |-> TRUE,
                 content |-> Join(OTHER_LOGS.refused_then_gave_up, <<"\n">>)]
          [] OTHER -> [readable |-> FALSE, content |-> <<>>]]

\* datetime.now() at the time a log file is analysed.
Clock ==
    {[year |-> 2024, month |-> 1, day |-> 16, hour |-> 12, minute |-> 0, second |-> 0,
      microsecond |-> 250000]}

\* The records a failure database is filled from, oldest first.
StoredFailures ==
    <<SAMPLE_HISTORICAL_FAILURES[1], OTHER_FAILURES[1], SAMPLE_HISTORICAL_FAILURES[3],
      OTHER_FAILURES[2], SAMPLE_HISTORICAL_FAILURES[2], OTHER_FAILURES[3]>>

\* All orders of the numbers 1..n, as sequences.
Rankings(n) == {r \in [1..n -> 1..n] : \A i, j \in 1..n : r[i] = r[j] => i = j}

\* FailureMemory: the table's rows in insertion order; index and table exist
\* once a record was added.  ranking is the order in which the vector index
\* returns the rows for the query of the failure under analysis.
Memories ==
    UNION {{[rows |-> Take(StoredFailures, n), ranking |-> r] : r \in Rankings(n)} :
            n \in 0..MaxRows}

\* FailureMemory.search_similar, when the retriever answers
search_similar(mem, query_failure, top_k) ==
    IF mem.rows = <<>>
    THEN <<>>
    ELSE [i \in 1..(IF top_k < Len(mem.rows) THEN top_k ELSE Len(mem.rows)) |->
            mem.rows[mem.ranking[i]]]

\* FailureMemory.get_by_test_name, when the table answers
get_by_test_name(mem, test_name) ==
    IF mem.rows = <<>>
    THEN <<>>
    ELSE Take(SelectSeq(mem.rows, LAMBDA f : f.test_name = test_name), 20)

\* ---------------------------------------------------------------------------
\* The data models: construction, to_dict and from_dict
\* ---------------------------------------------------------------------------

\* The decimal digits of n, zero-filled to at least width characters.
ZeroFill(n, width) ==
    LET digits == IntToStr(n)
    IN  [i \in 1..(width - Len(digits)) |-> "0"] \o digits

\* datetime.isoformat(timespec='seconds'): the microseconds are left out
isoformat_seconds(d) ==
    ZeroFill(d.year, 4) \o <<"-">> \o ZeroFill(d.month, 2) \o <<"-">> \o ZeroFill(d.day, 2)
    \o <<"T">> \o ZeroFill(d.hour, 2) \o <<":">> \o ZeroFill(d.minute, 2) \o <<":">>
    \o ZeroFill(d.second, 2)

\* datetime.isoformat(): YYYY-MM-DDTHH:MM:SS, and .ffffff when microsecond is not 0
isoformat(d) ==
    ZeroFill(d.year, 4) \o <<"-">> \o ZeroFill(d.month, 2) \o <<"-">> \o ZeroFill(d.day, 2)
    \o <<"T">> \o ZeroFill(d.hour, 2) \o <<":">> \o ZeroFill(d.minute, 2) \o <<":">>
    \o ZeroFill(d.second, 2)
    \o (IF d.microsecond # 0 THEN <<".">> \o ZeroFill(d.microsecond, 6) ELSE <<>>)

AllDigits(t) == \A i \in 1..Len(t) : t[i] \in Digits

\* datetime.fromisoformat(t) for texts of the extended format without a UTC
\* offset, YYYY-MM-DD[*HH[:MM[:SS[.f+]]]]: the datetime, or None where it
\* raises ValueError.  Digits of the fraction after the sixth are dropped.
fromisoformat(t) ==
    LET n == Len(t)
        shaped ==
            /\ n \in {10, 13, 16, 19} \/ n >= 21
            /\ AllDigits(SubSeq(t, 1, 4)) /\ t[5] = "-"
            /\ AllDigits(SubSeq(t, 6, 7)) /\ t[8] = "-"
            /\ AllDigits(SubSeq(t, 9, 10))
            /\ n >= 13 => AllDigits(SubSeq(t, 12, 13))
            /\ n >= 16 => (t[14] = ":" /\ AllDigits(SubSeq(t, 15, 16)))
            /\ n >= 19 => (t[17] = ":" /\ AllDigits(SubSeq(t, 18, 19)))
            /\ n >= 21 => (t[20] \in {".", ","} /\ AllDigits(SubSeq(t, 21, n)))
        year        == DigitsToInt(SubSeq(t, 1, 4))
        month       == DigitsToInt(SubSeq(t, 6, 7))
        day         == DigitsToInt(SubSeq(t, 9, 10))
        hour        == IF n >= 13 THEN DigitsToInt(SubSeq(t, 12, 13)) ELSE 0
        minute      == IF n >= 16 THEN DigitsToInt(SubSeq(t, 15, 16)) ELSE 0
        second      == IF n >= 19 THEN DigitsToInt(SubSeq(t, 18, 19)) ELSE 0
        fraction    == SubSeq(t, 21, IF n < 26 THEN n ELSE 26)
        microsecond == IF n >= 21
                       THEN DigitsToInt(fraction \o [i \in 1..(6 - Len(fraction)) |-> "0"])
                       ELSE 0
    IN  IF /\ shaped
           /\ year >= 1
           /\ month \in 1..12
           /\ day \in 1..DaysInMonth(year, month)
           /\ hour <= 23
           /\ minute <= 59
           /\ second <= 59
        THEN Some([year |-> year, month |-> month, day |-> day, hour |-> hour,
                   minute |-> minute, second |-> second, microsecond |-> microsecond])
        ELSE None

\* class FailureType(Enum): the members and their values
FailureTypeValues ==
    {
     [name |-> "TIMEOUT", value |-> <<"t","i","m","e","o","u","t">>],
     [name |-> "SELECTOR", value |-> <<"s","e","l","e","c","t","o","r","_","i","s","s","u","e">>],
     [name |-> "NETWORK", value |-> <<"n","e","t","w","o","r","k","_","i","n","s","t","a","b","i","l","i","t","y">>],
     [name |-> "DATA_SETUP", value |-> <<"d","a","t","a","_","s","e","t","u","p","_","i","s","s","u","e">>],
     [name |-> "ENVIRONMENT", value |-> <<"e","n","v","i","r","o","n","m","e","n","t","_","i","s","s","u","e">>],
     [name |-> "GENUINE_BUG", value |-> <<"g","e","n","u","i","n","e","_","r","e","g","r","e","s","s","i","o","n">>],
     [name |-> "UNKNOWN", value |-> <<"u","n","k","n","o","w","n">>]
    }

\* FailureType.<name>.value
FailureTypeValue(name) == (CHOOSE m \in FailureTypeValues : m.name = name).value

\* FailureType(value): the member, or None where it raises ValueError
FailureTypeOfValue(value) ==
    IF \E m \in FailureTypeValues : m.value = value
    THEN Some((CHOOSE m \in FailureTypeValues : m.value = value).name)
    ELSE None

\* Resolution.to_dict
Resolution_to_dict(r) ==
    [r EXCEPT !.classification = FailureTypeValue(r.classification),
              !.fixed_at = IF r.fixed_at # None
                           THEN Some(isoformat(r.fixed_at[1]))
                           ELSE None]

\* Resolution.from_dict: the dictionary as the call leaves it, and the
\* Resolution returned, or None where the call raises.
Resolution_from_dict(d) ==
    LET convert   == d.fixed_at # None /\ d.fixed_at[1] # <<>>
        fixed_at  == IF convert THEN fromisoformat(d.fixed_at[1]) ELSE None
        member    == FailureTypeOfValue(d.classification)
    IN  IF convert /\ fixed_at = None
        THEN [data |-> d, value |-> None]
        ELSE LET dated == IF convert THEN [d EXCEPT !.fixed_at = fixed_at] ELSE d
             IN  IF member = None
                 THEN [data |-> dated, value |-> None]
                 ELSE LET typed == [dated EXCEPT !.classification = member[1]]
                      IN  [data |-> typed, value |-> Some(typed)]

\* HistoricalFailure(**kwargs): the generated constructor stores each argument
HistoricalFailure(kwargs) ==
    [test_name        |-> kwargs.test_name,
     error_message    |-> kwargs.error_message,
     error_type       |-> kwargs.error_type,
     log_snippet      |-> kwargs.log_snippet,
     timestamp        |-> kwargs.timestamp,
     duration_seconds |-> kwargs.duration_seconds,
     retry_count      |-> kwargs.retry_count,
     artifacts        |-> kwargs.artifacts,
     resolution       |-> kwargs.resolution,
     ci_run_id        |-> kwargs.ci_run_id,
     branch           |-> kwargs.branch,
     commit_sha       |-> kwargs.commit_sha,
     flaky_score      |-> kwargs.flaky_score]

\* HistoricalFailure.to_dict
to_dict(f) ==
    [f EXCEPT !.timestamp = isoformat(f.timestamp),
              !.resolution = IF f.resolution # None
                             THEN Some(Resolution_to_dict(f.resolution[1]))
                             ELSE None]

\* HistoricalFailure.from_dict: the dictionary as the call leaves it, and the
\* record returned, or None where the call raises.
from_dict(d) ==
    LET timestamp == fromisoformat(d.timestamp)
    IN  IF timestamp = None
        THEN [data |-> d, value |-> None]
        ELSE LET dated == [d EXCEPT !.timestamp = timestamp[1]]
             IN  IF d.resolution = None
                 THEN [data |-> dated, value |-> Some(HistoricalFailure(dated))]
                 ELSE LET r == Resolution_from_dict(d.resolution[1])
                      IN  IF r.value = None
                          THEN [data  |-> [dated EXCEPT !.resolution = Some(r.data)],
                                value |-> None]
                          ELSE [data  |-> [dated EXCEPT !.resolution = r.value],
                                value |-> Some(HistoricalFailure(
                                                [dated EXCEPT !.resolution = r.value]))]

\* A value of a dictionary together with its Python type, for dictionaries
\* whose entries a conversion replaces in place.
Str(t) == [type |-> "str", value |-> t]

Object(type, v) == [type |-> type, value |-> v]

\* One dictionary of SAMPLE_HISTORICAL_FAILURES as the module defines it:
\* every value a literal, the date and the classification strings.
RawSample(f) ==
    LET d == to_dict(f)
        r == d.resolution[1]
    IN  [d EXCEPT !.resolution =
            Some([r EXCEPT !.classification = Str(r.classification),
                           !.fixed_at = IF r.fixed_at = None
                                        THEN None
                                        ELSE Some(Str(r.fixed_at[1]))])]

\* SAMPLE_HISTORICAL_FAILURES, the module-level list of dictionaries
SampleData ==
    [i \in DOMAIN SAMPLE_HISTORICAL_FAILURES |-> RawSample(SAMPLE_HISTORICAL_FAILURES[i])]

\* Resolution.from_dict on a resolution dictionary of SAMPLE_HISTORICAL_FAILURES,
\* which an earlier call may have converted: datetime.fromisoformat raises
\* TypeError for a datetime, FailureType(member) is the member.  The dictionary
\* as the call leaves it, and the Resolution returned, or None where it raises.
Resolution_from_shared(d) ==
    LET given    == d.fixed_at # None
        is_str   == given /\ d.fixed_at[1].type = "str"
        convert  == given /\ (is_str => d.fixed_at[1].value # <<>>)
        fixed_at == IF is_str /\ convert THEN fromisoformat(d.fixed_at[1].value) ELSE None
        member   == IF d.classification.type = "str"
                    THEN FailureTypeOfValue(d.classification.value)
                    ELSE Some(d.classification.value)
    IN  IF convert /\ fixed_at = None
        THEN [data |-> d, value |-> None]
        ELSE LET dated == IF convert
                          THEN [d EXCEPT !.fixed_at = Some(Object("datetime", fixed_at[1]))]
                          ELSE d
             IN  IF member = None
                 THEN [data |-> dated, value |-> None]
                 ELSE [data  |-> [dated EXCEPT
                                    !.classification = Object("FailureType", member[1])],
                       value |-> Some([d EXCEPT
                                    !.fixed_at = IF convert THEN fixed_at
                                                 ELSE IF given THEN Some(d.fixed_at[1].value)
                                                 ELSE None,
                                    !.classification = member[1]])]

\* The loop of load_sample_data_to_memory from the i-th dictionary on:
\* data.copy() copies the top level only, so Resolution.from_dict converts the
\* resolution dictionary of the module's list, while the timestamp is replaced
\* in the copy.  The list as the loop leaves it, and the failures collected,
\* or None where a conversion raises.
RECURSIVE convert_samples(_, _, _)
convert_samples(samples, i, failures) ==
    IF i > Len(samples)
    THEN [samples |-> samples, failures |-> Some(failures)]
    ELSE LET sample    == samples[i]
             r         == IF sample.resolution = None
                          THEN [data |-> None, value |-> Some(None)]
                          ELSE LET c == Resolution_from_shared(sample.resolution[1])
                               IN  [data  |-> Some(c.data),
                                    value |-> IF c.value = None THEN None ELSE Some(c.value)]
             left      == [samples EXCEPT ![i].resolution = r.data]
             timestamp == fromisoformat(sample.timestamp)
         IN  IF r.value = None \/ timestamp = None
             THEN [samples |-> left, failures |-> None]
             ELSE convert_samples(left, i + 1,
                      Append(failures,
                             HistoricalFailure([sample EXCEPT !.timestamp = timestamp[1],
                                                              !.resolution = r.value[1]])))

\* json.dump(SAMPLE_HISTORICAL_FAILURES) raises TypeError for a value that is
\* no literal of JSON: a datetime or a member of FailureType.
Serializable(samples) ==
    \A i \in 1..Len(samples) :
        samples[i].resolution # None =>
            LET r == samples[i].resolution[1]
            IN  /\ r.classification.type = "str"
                /\ r.fixed_at # None => r.fixed_at[1].type = "str"

\* ---------------------------------------------------------------------------
\* The commands as a state machine
\* ---------------------------------------------------------------------------

VARIABLES
    command,            \* "analyze" (one log file) or "batch" (a directory)
    pc,                 \* where the command is
    log_file,           \* the log file under analysis, if any
    memory,             \* the failure database
    llm,                \* the agent's llm: "None" (disabled) or "Ollama"
    failure,            \* the HistoricalFailure handed to analyze, if any
    reasoning_steps,    \* locals of TriageAgent.analyze
    similar_failures,
    history,
    flaky_score,
    failure_type,
    root_cause,
    actions,
    confidence,
    result,             \* the TriageResult returned, if any
    raised,             \* the call whose exception left analysis, if any
    calls,              \* the collaborator calls made by this analysis
    stages,             \* the stages run by this analysis, each with the trace it saw
    run,                \* 1, or 2 when the command is run a second time
    previous,           \* the result of the first run, if any
    log_files,          \* batch: the files found
    position,           \* batch: index of the file of the current iteration
    results,            \* batch: (file name, result) pairs
    progress,           \* batch: completed units of the progress bar
    errors,             \* batch: files whose error was printed
    attempted,          \* batch: the files handed to analyze_failure_file
    data,               \* the dictionary a record was rendered to or is built from, if any
    restored,           \* the record HistoricalFailure.from_dict returned, if any
    content,            \* the log text handed to the parser, if any
    parsed,             \* the TestFailure the parser returned, if any
    window,             \* the context window asked of it and the radius, if any
    sample_data         \* SAMPLE_HISTORICAL_FAILURES of agent.models, as the process holds it

vars ==
    <<command, pc, log_file, memory, llm, failure, reasoning_steps, similar_failures,
      history, flaky_score, failure_type, root_cause, actions, confidence, result,
      raised, calls, stages, run, previous, log_files, position, results, progress,
      errors, attempted, data, restored, content, parsed, window, sample_data>>

locals ==
    <<reasoning_steps, similar_failures, history, flaky_score, failure_type, root_cause,
      actions, confidence>>

agent == <<command, memory, llm, run, previous>>

batch == <<log_files, position, results, progress, errors, attempted>>

records == <<data, restored, content, parsed, window, sample_data>>

\* No record was converted and no text parsed on its own.
NoRecords ==
    /\ data = None
    /\ restored = None
    /\ content = None
    /\ parsed = None
    /\ window = None
    /\ sample_data = SampleData

\* The locals of analyze before the call.
NoLocals ==
    /\ reasoning_steps' = <<>>
    /\ similar_failures' = <<>>
    /\ history' = <<>>
    /\ flaky_score' = 0
    /\ failure_type' = "unset"
    /\ root_cause' = <<>>
    /\ actions' = <<>>
    /\ confidence' = 0

InitAnalysis ==
    /\ memory \in Memories
    /\ llm \in {"None", "Ollama"}
    /\ reasoning_steps = <<>>
    /\ similar_failures = <<>>
    /\ history = <<>>
    /\ flaky_score = 0
    /\ failure_type = "unset"
    /\ root_cause = <<>>
    /\ actions = <<>>
    /\ confidence = 0
    /\ result = None
    /\ raised = None
    /\ calls = <<>>
    /\ stages = <<>>
    /\ run = 1
    /\ previous = None
    /\ NoRecords

\* cli.analyze on one log file
Init ==
    /\ command = "analyze"
    /\ pc = "idle"
    /\ log_file \in {Some(name) : name \in DOMAIN Files}
    /\ failure = None
    /\ InitAnalysis
    /\ log_files = <<>>
    /\ position = 0
    /\ results = <<>>
    /\ progress = 0
    /\ errors = <<>>
    /\ attempted = <<>>

\* A stage of analyze runs, seeing the trace as it is after the append.
Stage(name, trace) == stages' = Append(stages, [stage |-> name, trace |-> trace])

\* analyze_failure_file up to the call of agent.analyze:
\* the file is parsed and the failure record built, or open raises.
ParseLogFile ==
    /\ pc = "idle"
    /\ log_file # None
    /\ \/ /\ Files[log_file[1]].readable
          /\ \E now \in Clock :
                failure' = Some(FailureOfParsed(parse_content(Files[log_file[1]].content), now))
          /\ pc' = "analyze"
          /\ UNCHANGED raised
       \/ /\ ~Files[log_file[1]].readable
          /\ raised' = Some("open")
          /\ pc' = "raised"
          /\ UNCHANGED failure
    /\ UNCHANGED <<log_file, locals, result, calls, stages, agent, batch, records>>

\* Step 1: gather evidence
GatherEvidence ==
    /\ pc = "analyze"
    /\ reasoning_steps' = <<STEP_TEXT.gather>>
    /\ Stage("gather", reasoning_steps')
    /\ pc' = "search"
    /\ UNCHANGED <<log_file, failure, similar_failures, history, flaky_score, failure_type,
                   root_cause, actions, confidence, result, raised, calls, agent, batch, records>>

\* Step 2: search similar failures; the retriever answers or raises
SearchSimilarFailures ==
    /\ pc = "search"
    /\ reasoning_steps' = Append(reasoning_steps, STEP_TEXT.search)
    /\ Stage("search", reasoning_steps')
    /\ \/ /\ similar_failures' = search_similar(memory, failure[1], 5)
          /\ pc' = "history"
          /\ UNCHANGED raised
       \/ /\ memory.rows # <<>>
          /\ raised' = Some("search_similar")
          /\ pc' = "raised"
          /\ UNCHANGED similar_failures
    /\ calls' = Append(calls, [call |-> "search_similar", raised |-> (pc' = "raised")])
    /\ UNCHANGED <<log_file, failure, history, flaky_score, failure_type, root_cause,
                   actions, confidence, result, agent, batch, records>>

\* Step 3: get the test's history; the table answers or raises
GetTestHistory ==
    /\ pc = "history"
    /\ reasoning_steps' =
            Append(reasoning_steps, STEP_TEXT.history \o failure[1].test_name)
    /\ Stage("history", reasoning_steps')
    /\ \/ /\ history' = get_by_test_name(memory, failure[1].test_name)
          /\ pc' = "flaky"
          /\ UNCHANGED raised
       \/ /\ memory.rows # <<>>
          /\ raised' = Some("get_by_test_name")
          /\ pc' = "raised"
          /\ UNCHANGED history
    /\ calls' = Append(calls, [call |-> "get_by_test_name", raised |-> (pc' = "raised")])
    /\ UNCHANGED <<log_file, failure, similar_failures, flaky_score, failure_type,
                   root_cause, actions, confidence, result, agent, batch, records>>

\* Step 4: calculate the flaky score
CalculateFlakyScore ==
    /\ pc = "flaky"
    /\ reasoning_steps' = Append(reasoning_steps, STEP_TEXT.flaky)
    /\ Stage("flaky", reasoning_steps')
    /\ flaky_score' = calculate_flaky_score(failure[1], history)
    /\ pc' = "classify"
    /\ UNCHANGED <<log_file, failure, similar_failures, history, failure_type, root_cause,
                   actions, confidence, result, raised, calls, agent, batch, records>>

\* Step 5: classify the error type
ClassifyErrorType ==
    /\ pc = "classify"
    /\ reasoning_steps' = Append(reasoning_steps, STEP_TEXT.classify)
    /\ Stage("classify", reasoning_steps')
    /\ failure_type' = classify_error_type(failure[1])
    /\ pc' = "explain"
    /\ UNCHANGED <<log_file, failure, similar_failures, history, flaky_score, root_cause,
                   actions, confidence, result, raised, calls, agent, batch, records>>

\* An explanation step that asks the LLM although it is disabled.
ExplainByDisabledLLM ==
    /\ llm = "None"
    /\ \E text \in {LLM_TEXT.answers[k] : k \in 1..Len(LLM_TEXT.answers)} :
            root_cause' = Strip(text)
    /\ UNCHANGED calls

\* _generate_root_cause_explanation without an LLM: the rule-based explanation
ExplainByRules ==
    /\ llm = "None"
    /\ root_cause' = rule_based_explanation(failure[1], similar_failures, failure_type)
    /\ UNCHANGED calls

\* _generate_root_cause_explanation: the LLM answers, the stripped text is returned
ExplainByLLM ==
    /\ llm # "None"
    /\ \E text \in {LLM_TEXT.answers[k] : k \in 1..Len(LLM_TEXT.answers)} :
            root_cause' = Strip(text)
    /\ calls' = Append(calls,
            [call |-> "complete", raised |-> FALSE,
             prompt |-> Prompt(build_evidence_summary(failure[1], similar_failures, history))])

\* _generate_root_cause_explanation: llm.complete raises, fall back to the rules
ExplainAfterLLMError ==
    /\ llm # "None"
    /\ root_cause' = rule_based_explanation(failure[1], similar_failures, failure_type)
    /\ calls' = Append(calls,
            [call |-> "complete", raised |-> TRUE,
             prompt |-> Prompt(build_evidence_summary(failure[1], similar_failures, history))])

\* Step 6: generate the root cause explanation
GenerateRootCauseExplanation ==
    /\ pc = "explain"
    /\ reasoning_steps' = Append(reasoning_steps, STEP_TEXT.explain)
    /\ Stage("explain", reasoning_steps')
    /\ \/ ExplainByRules
       \/ ExplainByLLM
       \/ ExplainAfterLLMError
    /\ pc' = "actions"
    /\ UNCHANGED <<log_file, failure, similar_failures, history, flaky_score, failure_type,
                   actions, confidence, result, raised, agent, batch, records>>

\* Step 7: suggest actions
SuggestActions ==
    /\ pc = "actions"
    /\ reasoning_steps' = Append(reasoning_steps, STEP_TEXT.actions)
    /\ Stage("actions", reasoning_steps')
    /\ actions' = suggest_actions(failure_type, flaky_score, similar_failures)
    /\ pc' = "confidence"
    /\ UNCHANGED <<log_file, failure, similar_failures, history, flaky_score, failure_type,
                   root_cause, confidence, result, raised, calls, agent, batch, records>>

\* A confidence step that appends an entry of its own to the trace.
CalculateConfidenceTraced ==
    /\ pc = "confidence"
    /\ reasoning_steps' = Append(reasoning_steps, STEP_TEXT.flaky)
    /\ Stage("confidence", reasoning_steps')
    /\ confidence' = calculate_confidence(failure_type, similar_failures, flaky_score)
    /\ pc' = "assemble"
    /\ UNCHANGED <<log_file, failure, similar_failures, history, flaky_score, failure_type,
                   root_cause, actions, result, raised, calls, agent, batch, records>>

\* Step 8: calculate the confidence
CalculateConfidence ==
    /\ pc = "confidence"
    /\ Stage("confidence", reasoning_steps)
    /\ confidence' = calculate_confidence(failure_type, similar_failures, flaky_score)
    /\ pc' = "assemble"
    /\ UNCHANGED <<log_file, failure, reasoning_steps, similar_failures, history,
                   flaky_score, failure_type, root_cause, actions, result, raised, calls,
                   agent, batch, records>>

\* TriageResult(...) holding only the best-ranked similar failure
TriageResultTopOne ==
    [test_name              |-> failure[1].test_name,
     classification         |-> failure_type,
     flaky_probability      |-> flaky_score,
     root_cause_explanation |-> root_cause,
     suggested_actions      |-> actions,
     confidence_score       |-> confidence,
     similar_failures       |-> Take(similar_failures, 1),
     reasoning_steps        |-> reasoning_steps]

\* TriageResult(...) holding every similar failure the search returned
TriageResultUntruncated ==
    [test_name              |-> failure[1].test_name,
     classification         |-> failure_type,
     flaky_probability      |-> flaky_score,
     root_cause_explanation |-> root_cause,
     suggested_actions      |-> actions,
     confidence_score       |-> confidence,
     similar_failures       |-> similar_failures,
     reasoning_steps        |-> reasoning_steps]

\* TriageResult(...) as analyze builds it
TriageResult ==
    [test_name              |-> failure[1].test_name,
     classification         |-> failure_type,
     flaky_probability      |-> flaky_score,
     root_cause_explanation |-> root_cause,
     suggested_actions      |-> actions,
     confidence_score       |-> confidence,
     similar_failures       |-> Take(similar_failures, 3),
     reasoning_steps        |-> reasoning_steps]

\* analyze returns the result
ReturnResult ==
    /\ pc = "assemble"
    /\ Stage("assemble", reasoning_steps)
    /\ result' = Some(TriageResult)
    /\ pc' = "done"
    /\ UNCHANGED <<log_file, failure, locals, raised, calls, agent, batch, records>>

\* The analyze command is run again on the same file, without an LLM.
RunAgain ==
    /\ command = "analyze"
    /\ pc = "done"
    /\ run = 1
    /\ llm = "None"
    /\ previous' = result
    /\ run' = 2
    /\ NoLocals
    /\ failure' = None
    /\ result' = None
    /\ calls' = <<>>
    /\ stages' = <<>>
    /\ pc' = "idle"
    /\ UNCHANGED <<command, log_file, memory, llm, raised, batch, records>>

Analysis ==
    \/ ParseLogFile
    \/ GatherEvidence
    \/ SearchSimilarFailures
    \/ GetTestHistory
    \/ CalculateFlakyScore
    \/ ClassifyErrorType
    \/ GenerateRootCauseExplanation
    \/ SuggestActions
    \/ CalculateConfidence
    \/ ReturnResult

Next ==
    \/ Analysis
    \/ RunAgain

Spec == Init /\ [][Next]_vars

\* ---------------------------------------------------------------------------
\* cli.batch
\* ---------------------------------------------------------------------------

\* The log files a batch directory may hold.
BatchFiles == {"test_login_timeout.log", "empty.log", "unreadable.log"}

\* list(Path(directory).glob("*.log"))[:limit]: distinct files in any order
FileLists ==
    UNION {{l \in [1..n -> BatchFiles] : \A i, j \in 1..n : l[i] = l[j] => i = j} :
            n \in 0..MaxFiles}

InitBatch ==
    /\ command = "batch"
    /\ pc = "batch"
    /\ log_file = None
    /\ failure = None
    /\ InitAnalysis
    /\ Len(memory.rows) <= 1
    /\ log_files \in FileLists
    /\ position = 0
    /\ results = <<>>
    /\ progress = 0
    /\ errors = <<>>
    /\ attempted = <<>>

\* batch up to its loop: without log files it returns at once
BatchStart ==
    /\ pc = "batch"
    /\ \/ /\ log_files = <<>>
          /\ pc' = "returned"
          /\ UNCHANGED position
       \/ /\ log_files # <<>>
          /\ pc' = "loop"
          /\ position' = 1
    /\ UNCHANGED <<log_file, failure, locals, result, raised, calls, stages, agent,
                   log_files, results, progress, errors, attempted, records>>

\* The loop takes the next file and calls analyze_failure_file on it.
BatchAnalyzeFile ==
    /\ pc = "loop"
    /\ position <= Len(log_files)
    /\ log_file' = Some(log_files[position])
    /\ attempted' = Append(attempted, log_files[position])
    /\ NoLocals
    /\ failure' = None
    /\ result' = None
    /\ raised' = None
    /\ calls' = <<>>
    /\ stages' = <<>>
    /\ pc' = "idle"
    /\ UNCHANGED <<agent, log_files, position, results, progress, errors, records>>

\* A loop body that does not catch: the first exception ends the batch.
BatchRecordUncaught ==
    /\ command = "batch"
    /\ pc \in {"done", "raised"}
    /\ \/ /\ pc = "done"
          /\ results' = Append(results, <<log_file[1], result[1]>>)
          /\ progress' = progress + 1
          /\ position' = position + 1
          /\ pc' = "loop"
       \/ /\ pc = "raised"
          /\ pc' = "returned"
          /\ UNCHANGED <<results, progress, position>>
    /\ UNCHANGED <<log_file, failure, locals, result, raised, calls, stages, agent,
                   log_files, errors, attempted, records>>

\* The call returned or raised: the result is kept or the error printed,
\* and the progress bar advances.
BatchRecord ==
    /\ command = "batch"
    /\ pc \in {"done", "raised"}
    /\ \/ /\ pc = "done"
          /\ results' = Append(results, <<log_file[1], result[1]>>)
          /\ UNCHANGED errors
       \/ /\ pc = "raised"
          /\ errors' = Append(errors, log_file[1])
          /\ UNCHANGED results
    /\ progress' = progress + 1
    /\ position' = position + 1
    /\ pc' = "loop"
    /\ UNCHANGED <<log_file, failure, locals, result, raised, calls, stages, agent,
                   log_files, attempted, records>>

\* After the last file the summary is displayed.
BatchSummary ==
    /\ pc = "loop"
    /\ position > Len(log_files)
    /\ pc' = "returned"
    /\ UNCHANGED <<log_file, failure, locals, result, raised, calls, stages, agent, batch, records>>

NextBatch ==
    \/ BatchStart
    \/ BatchAnalyzeFile
    \/ Analysis
    \/ BatchRecord
    \/ BatchSummary

SpecBatch == InitBatch /\ [][NextBatch]_vars

\* A batch over two log files of six error lines each, equal in the first five.
InitTwins ==
    /\ command = "batch"
    /\ pc = "batch"
    /\ log_file = None
    /\ failure = None
    /\ InitAnalysis
    /\ Len(memory.rows) <= 1
    /\ log_files \in {<<"refused_then_timeout.log", "refused_then_gave_up.log">>,
                      <<"refused_then_gave_up.log", "refused_then_timeout.log">>}
    /\ position = 0
    /\ results = <<>>
    /\ progress = 0
    /\ errors = <<>>
    /\ attempted = <<>>

SpecTwins == InitTwins /\ [][NextBatch]_vars

\* ---------------------------------------------------------------------------
\* TriageTools.classify_error_type on failures given by the caller
\* ---------------------------------------------------------------------------

\* Largest number of words of an error message handed to the classifier.
MaxWords == 2

\* The texts of at most n words, words separated by one space.
RECURSIVE Phrases(_)
Phrases(n) ==
    IF n = 0
    THEN {<<>>}
    ELSE Phrases(n - 1) \cup
         {IF p = <<>> THEN WORDS.all[k] ELSE p \o WORDS.space \o WORDS.all[k] :
            p \in Phrases(n - 1), k \in 1..Len(WORDS.all)}

\* A HistoricalFailure as a caller that has no log file builds it.
GivenFailure(error_message, log_snippet) ==
    [test_name        |-> WORDS.test,
     error_message    |-> error_message,
     error_type       |-> None,
     log_snippet      |-> log_snippet,
     timestamp        |-> CHOOSE now \in Clock : TRUE,
     duration_seconds |-> None,
     retry_count      |-> 0,
     artifacts        |-> <<>>,
     resolution       |-> None,
     ci_run_id        |-> None,
     branch           |-> None,
     commit_sha       |-> None,
     flaky_score      |-> 0]

\* The classifier is about to be applied to a given failure.
InitClassify ==
    /\ command = "analyze"
    /\ pc = "classify"
    /\ log_file = None
    /\ InitAnalysis
    /\ memory.rows = <<>>
    /\ llm = "None"
    /\ \E error_message \in Phrases(MaxWords), log_snippet \in Phrases(1) :
            failure = Some(GivenFailure(error_message, log_snippet))
    /\ log_files = <<>>
    /\ position = 0
    /\ results = <<>>
    /\ progress = 0
    /\ errors = <<>>
    /\ attempted = <<>>

SpecClassify == InitClassify /\ [][ClassifyErrorType]_vars

\* ---------------------------------------------------------------------------
\* The tools of the agent on inputs given by the caller
\* ---------------------------------------------------------------------------

\* Largest retry count of a given failure.
MaxRetries == 2

\* Largest length of a given history.
MaxHistory == 3

\* The histories of at most n records, each resolved (the first stored
\* failure) or unresolved (the second).
RECURSIVE Histories(_)
Histories(n) ==
    IF n = 0
    THEN {<<>>}
    ELSE Histories(n - 1) \cup
         {Append(h, StoredFailures[k]) : h \in Histories(n - 1), k \in 1..2}

\* The error types of given failures.
ErrorTypes ==
    {None, Some(PARSER_TEXT.NetworkError), Some(PARSER_TEXT.TimeoutError),
     Some(PARSER_TEXT.SelectorError)}

\* The state of the variables the given inputs do not set.
InitGiven ==
    /\ command = "analyze"
    /\ log_file = None
    /\ memory = [rows |-> <<>>, ranking |-> <<>>]
    /\ llm = "None"
    /\ reasoning_steps = <<>>
    /\ root_cause = <<>>
    /\ actions = <<>>
    /\ confidence = 0
    /\ result = None
    /\ raised = None
    /\ calls = <<>>
    /\ stages = <<>>
    /\ run = 1
    /\ previous = None
    /\ log_files = <<>>
    /\ position = 0
    /\ results = <<>>
    /\ progress = 0
    /\ errors = <<>>
    /\ attempted = <<>>

\* calculate_flaky_score is about to be applied to a given failure and history.
InitFlaky ==
    /\ NoRecords
    /\ pc = "flaky"
    /\ InitGiven
    /\ \E retry_count \in 0..MaxRetries, error_type \in ErrorTypes :
            failure = Some([GivenFailure(WORDS.all[8], <<>>) EXCEPT
                                !.retry_count = retry_count, !.error_type = error_type])
    /\ history \in Histories(MaxHistory)
    /\ similar_failures = <<>>
    /\ flaky_score = 0
    /\ failure_type = "unset"

SpecFlaky == InitFlaky /\ [][CalculateFlakyScore]_vars

\* Largest number of similar failures handed to a tool.
MaxSimilar == 3

\* The lists of at most n of the first four stored failures: resolved with
\* confidence 0.95, unresolved, resolved with confidence 0.7, and resolved
\* with confidence 0.9 by the fix of the first.
RECURSIVE SimilarLists(_)
SimilarLists(n) ==
    IF n = 0
    THEN {<<>>}
    ELSE SimilarLists(n - 1) \cup
         {Append(l, StoredFailures[k]) :
            l \in SimilarLists(n - 1), k \in 1..4}

\* Flaky scores handed to a tool: 0, 1, and the scores at and next to the
\* thresholds that are compared with.
Scores == {0, 300, 600, 601, 700, 701, 750, 751, 1000}

\* _calculate_confidence is about to be applied to a given classification,
\* list of similar failures and flaky score.
InitConfidence ==
    /\ NoRecords
    /\ pc = "confidence"
    /\ InitGiven
    /\ failure = Some(GivenFailure(WORDS.all[8], <<>>))
    /\ history = <<>>
    /\ similar_failures \in SimilarLists(MaxSimilar)
    /\ flaky_score \in Scores
    /\ failure_type \in FailureType

SpecConfidence == InitConfidence /\ [][CalculateConfidence]_vars

\* suggest_actions is about to be applied to a given classification, flaky
\* score and list of similar failures.
InitActions ==
    /\ NoRecords
    /\ pc = "actions"
    /\ InitGiven
    /\ failure = Some(GivenFailure(WORDS.all[8], <<>>))
    /\ history = <<>>
    /\ similar_failures \in SimilarLists(MaxSimilar)
    /\ flaky_score \in Scores
    /\ failure_type \in FailureType

SpecActions == InitActions /\ [][SuggestActions]_vars

\* ---------------------------------------------------------------------------
\* analyze over a failure database that holds more records than one search
\* returns
\* ---------------------------------------------------------------------------

\* A database filled with every stored record, under each order the
\* retriever may rank them in.
FullMemories ==
    {[rows |-> StoredFailures, ranking |-> r] : r \in Rankings(Len(StoredFailures))}

InitRetrieval ==
    /\ command = "analyze"
    /\ pc = "idle"
    /\ log_file \in {Some("test_login_timeout.log"), Some("unreadable.log")}
    /\ failure = None
    /\ memory \in Memories \cup FullMemories
    /\ llm \in {"None", "Ollama"}
    /\ reasoning_steps = <<>>
    /\ similar_failures = <<>>
    /\ history = <<>>
    /\ flaky_score = 0
    /\ failure_type = "unset"
    /\ root_cause = <<>>
    /\ actions = <<>>
    /\ confidence = 0
    /\ result = None
    /\ raised = None
    /\ calls = <<>>
    /\ stages = <<>>
    /\ run = 1
    /\ previous = None
    /\ log_files = <<>>
    /\ position = 0
    /\ results = <<>>
    /\ progress = 0
    /\ errors = <<>>
    /\ attempted = <<>>
    /\ NoRecords

SpecRetrieval == InitRetrieval /\ [][Analysis]_vars

\* ---------------------------------------------------------------------------
\* The data models as a state machine
\* ---------------------------------------------------------------------------

\* Moments a record is stamped with: on the second, a few microseconds after
\* it, and in a year of three digits.
Timestamps ==
    {[year |-> 2024, month |-> 1, day |-> 10, hour |-> 10, minute |-> 0, second |-> 0,
      microsecond |-> 0],
     [year |-> 2024, month |-> 2, day |-> 29, hour |-> 23, minute |-> 59, second |-> 59,
      microsecond |-> 5],
     [year |-> 999, month |-> 12, day |-> 31, hour |-> 0, minute |-> 0, second |-> 7,
      microsecond |-> 250000]}

\* Flaky scores a caller passes, as thousandths: 1.5 and -0.2 are out of [0,1].
FlakyScores == {0 - 200, 0, 500, 1000, 1500}

\* The resolution of a record, fixed at the given moment.
FixedAt(resolution, moment) ==
    IF resolution = None
    THEN None
    ELSE Some([resolution[1] EXCEPT !.fixed_at = Some(moment)])

\* Dictionaries as json.loads gives them for rows that were not written by
\* to_dict: an impossible date, a score above 1, a classification that is no
\* value of FailureType, a date without a time.
RawData ==
    LET d == to_dict(StoredFailures[1])
    IN  {[d EXCEPT !.timestamp = <<"2","0","2","4","-","0","2","-","3","0","T","1","0",":","0","0",":","0","0">>],
         [d EXCEPT !.flaky_score = 1500],
         [d EXCEPT !.resolution = Some([d.resolution[1] EXCEPT !.classification = <<"f","l","a","k","y">>])],
         [d EXCEPT !.timestamp = <<"2","0","2","4","-","0","1","-","1","0">>]}

InitModels ==
    /\ pc = "new"
    /\ InitGiven
    /\ NoRecords
    /\ failure = None
    /\ similar_failures = <<>>
    /\ history = <<>>
    /\ flaky_score = 0
    /\ failure_type = "unset"

\* A caller constructs a record.
Construct ==
    /\ pc = "new"
    /\ \E f \in {StoredFailures[i] : i \in DOMAIN StoredFailures}, timestamp \in Timestamps,
          fixed_at \in Timestamps, fscore \in FlakyScores :
            failure' = Some(HistoricalFailure(
                            [f EXCEPT !.timestamp = timestamp,
                                      !.resolution = FixedAt(f.resolution, fixed_at),
                                      !.flaky_score = fscore]))
    /\ pc' = "to_dict"
    /\ UNCHANGED <<command, log_file, memory, llm, locals, result, raised, calls, stages,
                   run, previous, batch, records>>

\* failure.to_dict()
ToDict ==
    /\ pc = "to_dict"
    /\ data' = Some(to_dict(failure[1]))
    /\ pc' = "from_dict"
    /\ UNCHANGED <<command, log_file, memory, llm, failure, locals, result, raised, calls,
                   stages, run, previous, batch, restored, content, parsed,
                   window, sample_data>>

\* json.loads(node.metadata['raw_data']) of a row of the database
LoadData ==
    /\ pc = "new"
    /\ \E d \in RawData : data' = Some(d)
    /\ pc' = "from_dict"
    /\ UNCHANGED <<command, log_file, memory, llm, failure, locals, result, raised, calls,
                   stages, run, previous, batch, restored, content, parsed,
                   window, sample_data>>

\* HistoricalFailure.from_dict(data): returns the record or raises; the
\* dictionary is converted in place.
FromDict ==
    /\ pc = "from_dict"
    /\ LET r == from_dict(data[1])
       IN  /\ data' = Some(r.data)
           /\ \/ /\ r.value # None
                 /\ restored' = r.value
                 /\ pc' = "restored"
                 /\ UNCHANGED raised
              \/ /\ r.value = None
                 /\ raised' = Some("from_dict")
                 /\ pc' = "raised"
                 /\ UNCHANGED restored
    /\ UNCHANGED <<command, log_file, memory, llm, failure, locals, result, calls, stages,
                   run, previous, batch, content, parsed, window, sample_data>>

\* Largest number of calls a process makes on the sample data.
MaxCalls == 3

\* load_sample_data_to_memory(): converts the sample data, then fills a
\* FailureMemory with the failures; the rows of an earlier call are replaced.
LoadSampleData ==
    /\ pc \in {"new", "sample"}
    /\ Len(calls) < MaxCalls
    /\ LET r == convert_samples(sample_data, 1, <<>>)
       IN  /\ sample_data' = r.samples
           /\ calls' = Append(calls, [call |-> "load_sample_data_to_memory",
                                      raised |-> r.failures = None])
           /\ \/ /\ r.failures = None
                 /\ raised' = Some("load_sample_data_to_memory")
                 /\ UNCHANGED memory
              \/ /\ r.failures # None
                 /\ raised' = None
                 /\ \E ranking \in Rankings(Len(r.failures[1])) :
                       memory' = [rows |-> r.failures[1], ranking |-> ranking]
    /\ pc' = "sample"
    /\ UNCHANGED <<command, log_file, llm, failure, locals, result, stages, run, previous,
                   batch, data, restored, content, parsed, window>>

\* save_sample_data(): json.dump of the sample data into the demo file
SaveSampleData ==
    /\ pc \in {"new", "sample"}
    /\ Len(calls) < MaxCalls
    /\ calls' = Append(calls, [call |-> "save_sample_data",
                               raised |-> ~Serializable(sample_data)])
    /\ raised' = IF Serializable(sample_data) THEN None ELSE Some("save_sample_data")
    /\ pc' = "sample"
    /\ UNCHANGED <<command, log_file, memory, llm, failure, locals, result, stages, run,
                   previous, batch, records>>

NextModels ==
    \/ Construct
    \/ ToDict
    \/ LoadData
    \/ FromDict
    \/ LoadSampleData
    \/ SaveSampleData

SpecModels == InitModels /\ [][NextModels]_vars

\* ---------------------------------------------------------------------------
\* LogParser on log texts given by the caller
\* ---------------------------------------------------------------------------

\* Largest number of lines of a log text handed to the parser.
MaxLines == 2

\* The lists of at most n lines.
RECURSIVE LineLists(_)
LineLists(n) ==
    IF n = 0
    THEN {<<>>}
    ELSE LineLists(n - 1) \cup
         {Append(ls, LOG_LINES.all[k]) : ls \in LineLists(n - 1), k \in 1..Len(LOG_LINES.all)}

\* The log texts: the lines joined by newlines, as f.read() returns them.
LogTexts == {Join(ls, LOG_LINES.newline) : ls \in LineLists(MaxLines)}

\* Largest number of entries of a log a context window is taken of.
MaxEntries == 4

\* Largest radius a context window is asked with; the default is 3.
MaxRadius == 3

\* The lists of at most n lines, each an ERROR line, a FAIL line or a line
\* without a level.
RECURSIVE EntryLists(_)
EntryLists(n) ==
    IF n = 0
    THEN {<<>>}
    ELSE EntryLists(n - 1) \cup
         {Append(ls, LOG_LINES.all[k]) : ls \in EntryLists(n - 1), k \in {3, 8, 13}}

\* Logs long enough for the windows of two errors to overlap or to stay apart.
ContextTexts == {Join(ls, LOG_LINES.newline) : ls \in EntryLists(MaxEntries)}

\* The parser is about to be applied to a given text.
InitParser ==
    /\ pc = "parse"
    /\ InitGiven
    /\ failure = None
    /\ similar_failures = <<>>
    /\ history = <<>>
    /\ flaky_score = 0
    /\ failure_type = "unset"
    /\ data = None
    /\ restored = None
    /\ content \in {Some(text) : text \in LogTexts \cup ContextTexts}
    /\ parsed = None
    /\ window = None
    /\ sample_data = SampleData

\* LogParser.parse_file after the file was read: returns the TestFailure.
ParseContent ==
    /\ pc = "parse"
    /\ parsed' = Some(parse_content(content[1]))
    /\ pc' = "parsed"
    /\ UNCHANGED <<command, log_file, memory, llm, failure, locals, result, raised, calls,
                   stages, run, previous, batch, data, restored, content, window,
                   sample_data>>

\* failure.get_context_window(around_errors) on the TestFailure returned
GetContextWindow ==
    /\ pc = "parsed"
    /\ \E around_errors \in 0..MaxRadius :
          window' = Some([around_errors |-> around_errors,
                          entries |-> get_context_window(parsed[1], around_errors)])
    /\ pc' = "windowed"
    /\ UNCHANGED <<command, log_file, memory, llm, failure, locals, result, raised, calls,
                   stages, run, previous, batch, data, restored, content, parsed,
                   sample_data>>

NextParser ==
    \/ ParseContent
    \/ GetContextWindow

SpecParser == InitParser /\ [][NextParser]_vars

\* ---------------------------------------------------------------------------
\* Claims
\* ---------------------------------------------------------------------------

\* C1: when the memory's similarity search or its history lookup raises, the
\* exception is caught in analyze, the list is taken as empty and a result is
\* returned: no analysis ends with the exception of a memory call.
C1_MemoryErrorsCaught ==
    pc = "raised" => raised \notin {Some("search_similar"), Some("get_by_test_name")}

\* C2: when the LLM is disabled or its complete call raised, the explanation
\* is the template of the classification (the generic "failed with error"
\* text for a classification without template), followed by the line "A
\* similar failure was previously resolved by: <fix>" exactly when the
\* top-ranked similar failure exists and has a resolution.
C2_RuleBasedOnFallback ==
    LET fell_back == \/ llm = "None"
                     \/ /\ calls # <<>>
                        /\ calls[Len(calls)].call = "complete"
                        /\ calls[Len(calls)].raised
        template ==
            CASE failure_type = "TIMEOUT" ->
                    EXPLANATION_TEXT.the_test \o failure[1].test_name
                    \o EXPLANATION_TEXT.timeout_tail
              [] failure_type = "SELECTOR" -> EXPLANATION_TEXT.selector
              [] failure_type = "NETWORK" -> EXPLANATION_TEXT.network
              [] failure_type = "DATA_SETUP" -> EXPLANATION_TEXT.data_setup
              [] failure_type = "ENVIRONMENT" -> EXPLANATION_TEXT.environment
              [] failure_type \in {"UNKNOWN", "GENUINE_BUG"} ->
                    EXPLANATION_TEXT.the_test \o failure[1].test_name
                    \o EXPLANATION_TEXT.failed_with \o failure[1].error_message
        top_resolved == similar_failures # <<>> /\ similar_failures[1].resolution # None
    IN  (pc \in {"actions", "confidence", "assemble", "done"} /\ fell_back) =>
            /\ top_resolved =>
                    root_cause = template \o EXPLANATION_TEXT.similar_fix
                                 \o similar_failures[1].resolution[1].fix_applied
            /\ ~top_resolved => root_cause = template
            /\ pc = "done" => result[1].root_cause_explanation = root_cause

\* The LLM raised, the top-ranked similar failure is unresolved and a lower
\* ranked one is resolved; a result was returned.
C2_Witness ==
    /\ pc = "done"
    /\ llm = "Ollama"
    /\ calls[Len(calls)].call = "complete"
    /\ calls[Len(calls)].raised
    /\ Len(similar_failures) >= 2
    /\ similar_failures[1].resolution = None
    /\ similar_failures[2].resolution # None

\* C3: the explanation of every returned TriageResult is non-empty text,
\* whether it comes from the LLM's answer or from the rules.
C3_ExplanationNonEmpty ==
    pc = "done" => result[1].root_cause_explanation # <<>>

\* C4: for a readable log file, with a memory that has no index and no table
\* and without an answer of an LLM, the analysis raises nothing and its
\* result has the test name set, a classification of the category set, a
\* flaky probability in [0,1], a non-empty explanation, 1 to 5 actions, a
\* confidence in [0.1,1.0], no similar failures and a non-empty trace; before
\* the return, and when an exception leaves the analysis, there is no result.
C4_CompleteResult ==
    LET no_answer == \A k \in 1..Len(calls) : calls[k].call = "complete" => calls[k].raised
    IN  (command = "analyze" /\ memory.rows = <<>> /\ no_answer) =>
            /\ pc = "raised" => ~Files[log_file[1]].readable
            /\ pc # "done" => result = None
            /\ pc = "done" =>
                /\ result # None
                /\ result[1].test_name # <<>>
                /\ result[1].classification \in FailureType
                /\ result[1].flaky_probability >= 0
                /\ result[1].flaky_probability <= 1000
                /\ result[1].root_cause_explanation # <<>>
                /\ Len(result[1].suggested_actions) >= 1
                /\ Len(result[1].suggested_actions) <= 5
                /\ result[1].confidence_score >= 100
                /\ result[1].confidence_score <= 1000
                /\ result[1].similar_failures = <<>>
                /\ result[1].reasoning_steps # <<>>

\* A result for a log without any entry, from an empty memory, after the
\* LLM raised.
C4_Witness ==
    /\ pc = "done"
    /\ log_file = Some("empty.log")
    /\ memory.rows = <<>>
    /\ llm = "Ollama"
    /\ calls[Len(calls)].raised
    /\ result[1].classification = "UNKNOWN"
    /\ Len(result[1].suggested_actions) = 3

C6_BatchIsolation ==
    LET done == SubSeq(log_files, 1, progress)
        result_names == [k \in 1..Len(results) |-> results[k][1]]
        in_results(f) == \E k \in 1..Len(results) : results[k][1] = f
        in_errors(f) == \E k \in 1..Len(errors) : errors[k] = f
    IN  /\ Len(attempted) <= Len(log_files)
        /\ attempted = SubSeq(log_files, 1, Len(attempted))
        /\ progress = Len(results) + Len(errors)
        /\ progress <= Len(attempted)
        /\ Len(attempted) <= progress + 1
        /\ result_names = SelectSeq(done, in_results)
        /\ errors = SelectSeq(done, in_errors)
        /\ \A i \in 1..progress :
                /\ in_results(log_files[i]) # in_errors(log_files[i])
                /\ ~Files[log_files[i]].readable => in_errors(log_files[i])
                /\ (Files[log_files[i]].readable /\ memory.rows = <<>>) =>
                        in_results(log_files[i])
        /\ \A k \in 1..Len(results) :
                results[k][2].test_name =
                    extract_test_name(parse_log_lines(Files[results[k][1]].content))
        /\ pc = "returned" =>
                /\ attempted = log_files
                /\ progress = Len(log_files)

\* A finished batch whose first file raised and whose second file has a result.
C6_Witness ==
    /\ pc = "returned"
    /\ Len(log_files) = 2
    /\ errors = <<log_files[1]>>
    /\ Len(results) = 1
    /\ results[1][1] = log_files[2]
    /\ progress = 2

\* C7: a call of analyze, whether it returns or raises, has made exactly one
\* similarity search, then exactly one history lookup, then at most one LLM
\* complete call, and no other call of a collaborator.
C7_SinglePass ==
    LET names == [k \in 1..Len(calls) |-> calls[k].call]
    IN  (pc = "done" \/ (pc = "raised" /\ raised # Some("open"))) =>
            names \in {<<"search_similar", "get_by_test_name">>,
                       <<"search_similar", "get_by_test_name", "complete">>}

C10_SelectorSampleIsSelector ==
    (log_file = Some("test_selector_changed.log")
        /\ pc \in {"explain", "actions", "confidence", "assemble", "done"}) =>
            failure_type = "SELECTOR"

\* C11: calculate_flaky_score returns the sum, formed in double arithmetic in
\* the order of the signals, of the weights of the signals that hold (0.4
\* retry count > 0, 0.3 history of 3 or more, 0.2 error type NetworkError or
\* TimeoutError, 0.1 history with a resolved and an unresolved entry), capped
\* at 1.0 and within [0,1]; a retry count > 0 gives at least 0.4; retry count
\* 2 with NetworkError and an empty history gives 0.6.
C11_SumOfWeights ==
    LET f == failure[1]
        resolved == {k \in 1..Len(history) : history[k].resolution # None}
        w1 == IF f.retry_count > 0 THEN FloatAdd(0, 400) ELSE 0
        w2 == IF Len(history) >= 3 THEN FloatAdd(w1, 300) ELSE w1
        w3 == IF f.error_type \in {Some(PARSER_TEXT.NetworkError),
                                   Some(PARSER_TEXT.TimeoutError)}
              THEN FloatAdd(w2, 200) ELSE w2
        w4 == IF resolved # {} /\ Cardinality(resolved) < Len(history)
              THEN FloatAdd(w3, 100) ELSE w3
    IN  pc = "classify" =>
            /\ flaky_score = (IF w4 > 1000 THEN 1000 ELSE w4)
            /\ flaky_score >= 0
            /\ flaky_score <= 1000
            /\ f.retry_count > 0 => flaky_score >= 400
            /\ (/\ f.retry_count = 2
                /\ f.error_type = Some(PARSER_TEXT.NetworkError)
                /\ history = <<>>) => flaky_score = 600

\* C12: the flaky score does not decrease when the retry count grows, when
\* the history grows (is as long or longer, and keeps a mix of resolved and
\* unresolved entries if it had one), or when the error type comes to be
\* NetworkError or TimeoutError, everything else being equal.
C12_Monotone ==
    LET f == failure[1]
        flaky_type(t) == t \in {Some(PARSER_TEXT.NetworkError), Some(PARSER_TEXT.TimeoutError)}
        mixed(h) == /\ \E k \in 1..Len(h) : h[k].resolution # None
                    /\ \E k \in 1..Len(h) : h[k].resolution = None
    IN  pc = "classify" =>
            /\ \A more \in f.retry_count..MaxRetries :
                    calculate_flaky_score([f EXCEPT !.retry_count = more], history)
                        >= flaky_score
            /\ \A longer \in Histories(MaxHistory) :
                    (Len(longer) >= Len(history) /\ (mixed(history) => mixed(longer))) =>
                        calculate_flaky_score(f, longer) >= flaky_score
            /\ \A t \in ErrorTypes :
                    (flaky_type(f.error_type) => flaky_type(t)) =>
                        calculate_flaky_score([f EXCEPT !.error_type = t], history)
                            >= flaky_score

\* The score of a failure without any signal was computed, and a failure
\* with every signal scores higher.
C12_Witness ==
    /\ pc = "classify"
    /\ flaky_score = 0
    /\ failure[1].retry_count = 0
    /\ history = <<>>
    /\ calculate_flaky_score(
            [failure[1] EXCEPT !.retry_count = 1, !.error_type = Some(PARSER_TEXT.NetworkError)],
            <<StoredFailures[1], StoredFailures[2], StoredFailures[1]>>) > 900

\* C13: the confidence is 0.5, plus 0.3 if a similar failure has a
\* resolution of confidence > 0.7, minus 0.2 if the classification is
\* UNKNOWN, minus 0.1 if the flaky score is > 0.7 (double arithmetic, in this
\* order), clamped to [0.1,1.0]; it is within [0.1,1.0]; TIMEOUT with one
\* similar failure of resolution confidence 0.9 and flaky score 0.3 gives 0.8.
C13_Confidence ==
    LET bonus == \E k \in 1..Len(similar_failures) :
                    /\ similar_failures[k].resolution # None
                    /\ similar_failures[k].resolution[1].confidence > 700
        a == IF bonus THEN FloatAdd(500, 300) ELSE 500
        b == IF failure_type = "UNKNOWN" THEN FloatAdd(a, -200) ELSE a
        c == IF flaky_score > 700 THEN FloatAdd(b, -100) ELSE b
    IN  pc = "assemble" =>
            /\ confidence = (IF c < 100 THEN 100 ELSE IF c > 1000 THEN 1000 ELSE c)
            /\ confidence >= 100
            /\ confidence <= 1000
            /\ (/\ failure_type = "TIMEOUT"
                /\ Len(similar_failures) = 1
                /\ similar_failures[1].resolution # None
                /\ similar_failures[1].resolution[1].confidence = 900
                /\ flaky_score = 300) => confidence = 800

\* The confidence for TIMEOUT, one similar failure resolved with confidence
\* 0.9 and flaky score 0.3 was computed.
C13_Witness ==
    /\ pc = "assemble"
    /\ failure_type = "TIMEOUT"
    /\ Len(similar_failures) = 1
    /\ similar_failures[1].resolution # None
    /\ similar_failures[1].resolution[1].confidence = 900
    /\ flaky_score = 300
    /\ confidence = 800

\* C14: suggest_actions returns at least 1 and at most 5 actions, for every
\* classification, flaky score and list of similar failures.
C14_OneToFiveActions ==
    pc = "confidence" => (Len(actions) >= 1 /\ Len(actions) <= 5)

\* Five actions were returned where six had been collected: two fixes, three
\* for a flaky timeout, the quarantine.
C14_Witness ==
    /\ pc = "confidence"
    /\ failure_type = "TIMEOUT"
    /\ flaky_score = 751
    /\ Len(SimilarFixActions(similar_failures)) = 2
    /\ Len(actions) = 5

\* C15: the actions returned by suggest_actions are pairwise distinct, for
\* every classification, flaky score and list of different similar failures,
\* also when the resolutions of two of them quote the same fix.
C15_DistinctActions ==
    (/\ pc = "confidence"
     /\ \A i, j \in 1..Len(similar_failures) :
            similar_failures[i] = similar_failures[j] => i = j) =>
        \A i, j \in 1..Len(actions) : actions[i] = actions[j] => i = j

\* C20: the list of suggest_actions starts with one "Apply similar fix: <fix>"
\* action for each of the two top-ranked similar failures that has a
\* resolution of confidence > 0.7, in rank order; no other action is a fix
\* action, so a similar failure without resolution, with a resolution of
\* confidence 0.7 or less, or ranked third or lower yields none.
C20_FixActionsFirst ==
    LET quoted == {k \in 1..Len(similar_failures) :
                        /\ k <= 2
                        /\ similar_failures[k].resolution # None
                        /\ similar_failures[k].resolution[1].confidence > 700}
        rank(i) == CHOOSE k \in quoted : Cardinality({q \in quoted : q <= k}) = i
        is_fix(action) == /\ Len(action) >= Len(ACTION_TEXT.apply_similar_fix)
                          /\ MatchAt(action, ACTION_TEXT.apply_similar_fix, 1)
    IN  pc = "confidence" =>
            /\ Len(actions) >= Cardinality(quoted)
            /\ \A i \in 1..Cardinality(quoted) :
                    actions[i] = ACTION_TEXT.apply_similar_fix
                                 \o similar_failures[rank(i)].resolution[1].fix_applied
            /\ \A i \in (Cardinality(quoted) + 1)..Len(actions) : ~is_fix(actions[i])

\* Three similar failures, the first unresolved, the second and third resolved
\* with confidence above 0.7: one fix action, that of the second.
C20_Witness ==
    /\ pc = "confidence"
    /\ Len(similar_failures) = 3
    /\ similar_failures[1].resolution = None
    /\ similar_failures[2].resolution # None
    /\ similar_failures[2].resolution[1].confidence = 950
    /\ similar_failures[3].resolution # None
    /\ similar_failures[3].resolution[1].confidence = 900
    /\ actions[1] = ACTION_TEXT.apply_similar_fix
                    \o similar_failures[2].resolution[1].fix_applied
    /\ Len(actions) = 3

\* C16: the similar_failures of a result are the first min(3, n) of the n
\* records the similarity search returned, in the ranked order; the search
\* returned the at most 5 (top_k) best-ranked rows; a result never holds more
\* than 3 similar failures.
C16_FirstThreeOfSearch ==
    result # None =>
        LET returned == similar_failures
            kept == result[1].similar_failures
        IN  /\ Len(returned) = (IF Len(memory.rows) < 5 THEN Len(memory.rows) ELSE 5)
            /\ \A i \in 1..Len(returned) : returned[i] = memory.rows[memory.ranking[i]]
            /\ Len(kept) = (IF Len(returned) < 3 THEN Len(returned) ELSE 3)
            /\ \A i \in 1..Len(kept) : kept[i] = returned[i]
            /\ Len(kept) <= 3

\* A database of six rows was searched: five came back and three were kept.
C16_Witness ==
    /\ result # None
    /\ Len(memory.rows) = 6
    /\ Len(similar_failures) = 5
    /\ Len(result[1].similar_failures) = 3
    /\ memory.ranking[1] = 6

\* C17: every HistoricalFailure record, whether constructed or returned by
\* from_dict, has a flaky score within [0,1] and a timestamp that is a moment
\* in time.
C17_ScoreClampedTimestampPresent ==
    \A record \in {failure, restored} :
        record # None =>
            /\ record[1].flaky_score >= 0
            /\ record[1].flaky_score <= 1000
            /\ record[1].timestamp \in
                    [year : Nat, month : 1..12, day : 1..31, hour : 0..23, minute : 0..59,
                     second : 0..59, microsecond : 0..999999]

\* C19: from_dict(to_dict(f)) is a record equal to f, for f with or without a
\* resolution; to_dict renders the timestamp, a resolution's fixed_at and its
\* classification as text, and from_dict restores the datetime and the
\* enumeration member.
C19_RoundTrip ==
    /\ (pc = "from_dict" /\ failure # None) =>
            /\ Len(data[1].timestamp) \in {19, 26}
            /\ \A i \in 1..Len(data[1].timestamp) :
                    data[1].timestamp[i] \in Digits \cup {"-", "T", ":", "."}
            /\ failure[1].resolution # None =>
                    LET r == failure[1].resolution[1]
                        d == data[1].resolution[1]
                    IN  /\ d.classification = FailureTypeValue(r.classification)
                        /\ Len(d.fixed_at[1]) \in {19, 26}
            /\ failure[1].resolution = None => data[1].resolution = None
    /\ (pc \in {"restored", "raised"} /\ failure # None) =>
            /\ raised = None
            /\ restored = failure

\* A record with a resolution, stamped and fixed off the second, went through
\* to_dict and from_dict.
C19_Witness ==
    /\ pc = "restored"
    /\ failure # None
    /\ failure[1].resolution # None
    /\ failure[1].timestamp.microsecond = 5
    /\ failure[1].resolution[1].fixed_at[1].microsecond = 250000
    /\ restored = failure

\* C18: the parser returns a TestFailure for every log text and raises for
\* none; a field nothing in the text matches takes its documented default:
\* test name "unknown_test", failure message "Unknown failure", no error type,
\* no duration, retry count 0, level INFO for a line without a level token, no
\* timestamp for a line without a valid timestamp.
C18_DefaultsForMalformedInput ==
    pc = "parsed" =>
        LET text  == content[1]
            lines == SelectSeq(Split(text, "\n"),
                               LAMBDA l : \E i \in 1..Len(l) : l[i] \notin Whitespace)
            HasOneOf(t, tokens) == \E k \in 1..Len(tokens) : Contains(t, tokens[k])
        IN  /\ raised = None
            /\ parsed # None
            /\ ~Contains(text, DOCUMENTED.test_) =>
                    parsed[1].test_name = DOCUMENTED.unknown_test
            /\ ~HasOneOf(text, DOCUMENTED.error_tokens) =>
                    /\ parsed[1].failure_message = DOCUMENTED.unknown_failure
                    /\ parsed[1].error_type = None
                    /\ parsed[1].error_lines = <<>>
            /\ ~Contains(text, DOCUMENTED.after) => parsed[1].duration_seconds = None
            /\ ~Contains(Lower(text), DOCUMENTED.retry_attempt) => parsed[1].retry_count = 0
            /\ Len(parsed[1].log_entries) = Len(lines)
            /\ \A i \in 1..Len(lines) :
                    LET entry == parsed[1].log_entries[i]
                    IN  /\ entry.raw_line = lines[i]
                        /\ ~HasOneOf(lines[i], DOCUMENTED.level_tokens) =>
                                entry.level = DOCUMENTED.info
                        /\ ~Contains(lines[i], DOCUMENTED.bracket) => entry.timestamp = None
                        /\ entry.timestamp # None =>
                                /\ entry.timestamp[1].month \in 1..12
                                /\ entry.timestamp[1].day \in
                                        1..DaysInMonth(entry.timestamp[1].year,
                                                       entry.timestamp[1].month)
                                /\ entry.timestamp[1].hour \in 0..23
                                /\ entry.timestamp[1].minute \in 0..59
                                /\ entry.timestamp[1].second \in 0..59

\* A text of two lines was parsed, one dated 30 February and one of plain
\* words: every field of the result has its default.
C18_Witness ==
    /\ pc = "parsed"
    /\ content = Some(LOG_LINES.all[4] \o LOG_LINES.newline \o LOG_LINES.all[3])
    /\ Len(parsed[1].log_entries) = 2
    /\ parsed[1].log_entries[1].timestamp = None
    /\ parsed[1].log_entries[1].level = DOCUMENTED.info
    /\ parsed[1].test_name = DOCUMENTED.unknown_test
    /\ parsed[1].failure_message = DOCUMENTED.unknown_failure
    /\ parsed[1].error_type = None
    /\ parsed[1].duration_seconds = None
    /\ parsed[1].retry_count = 0

\* C21: suggest_actions returns the three generic suggestions (re-run, review
\* recent changes, check CI logs), in that order and nothing else, exactly
\* when no similar fix, no category suggestion and no quarantine warning was
\* added; in every other case none of the three is in the returned list.
C21_GenericOnlyWhenEmpty ==
    LET generic == <<ACTION_TEXT.generic_1, ACTION_TEXT.generic_2, ACTION_TEXT.generic_3>>
        no_fix == \A k \in 1..Len(similar_failures) :
                        k <= 2 => \/ similar_failures[k].resolution = None
                                  \/ similar_failures[k].resolution[1].confidence <= 700
        no_category == failure_type \in {"GENUINE_BUG", "UNKNOWN"}
        empty == no_fix /\ no_category /\ flaky_score <= 750
    IN  pc = "confidence" =>
            /\ empty => actions = generic
            /\ ~empty => \A i \in 1..Len(actions), k \in 1..3 : actions[i] # generic[k]

\* An UNKNOWN failure of low flakiness whose two best similar failures quote
\* no fix (unresolved, and resolved with confidence 0.7) got the three generic
\* suggestions.
C21_Witness ==
    /\ pc = "confidence"
    /\ failure_type = "UNKNOWN"
    /\ flaky_score = 750
    /\ Len(similar_failures) = 2
    /\ similar_failures[1].resolution = None
    /\ similar_failures[2].resolution # None
    /\ actions = <<ACTION_TEXT.generic_1, ACTION_TEXT.generic_2, ACTION_TEXT.generic_3>>

\* C28: the cut to five actions removes no similar-fix action and no category
\* suggestion (canonical or flakiness-specific); it removes the quarantine
\* warning, and only it, exactly when the flaky score is above 0.75, two
\* similar-fix actions were added and the classification is TIMEOUT, SELECTOR,
\* NETWORK or DATA_SETUP; in every other case with a flaky score above 0.75 the
\* quarantine warning is the last action returned.
C28_OnlyQuarantineIsCut ==
    LET fixes == SimilarFixActions(similar_failures)
        category == TypeActions(failure_type, flaky_score)
        kept == fixes \o category
        cut == /\ flaky_score > 750
               /\ Len(fixes) = 2
               /\ failure_type \in {"TIMEOUT", "SELECTOR", "NETWORK", "DATA_SETUP"}
        Returned(action) == \E i \in 1..Len(actions) : actions[i] = action
    IN  pc = "confidence" =>
            /\ Len(actions) >= Len(kept)
            /\ \A i \in 1..Len(kept) : actions[i] = kept[i]
            /\ cut => (actions = kept /\ ~Returned(ACTION_TEXT.quarantine))
            /\ (flaky_score > 750 /\ ~cut) =>
                    /\ actions[Len(actions)] = ACTION_TEXT.quarantine
                    /\ Len(actions) = Len(kept) + 1
            /\ flaky_score <= 750 => ~Returned(ACTION_TEXT.quarantine)

\* A highly flaky SELECTOR failure with two quoted fixes: the five actions
\* returned are the fixes and the three selector suggestions, the quarantine
\* warning was cut.
C28_Witness ==
    /\ pc = "confidence"
    /\ failure_type = "SELECTOR"
    /\ flaky_score = 751
    /\ Len(SimilarFixActions(similar_failures)) = 2
    /\ Len(actions) = 5
    /\ actions[5] = ACTION_TEXT.selector_3

\* C30: in every result analyze returns, an "Apply similar fix" action among
\* the suggested actions means that the confidence score holds the +0.3 bonus
\* for a resolved similar failure (it is 0.8 less the deductions for UNKNOWN and
\* for flakiness, so at least 0.5) and that the fix quoted is that of one of
\* the at most 3 similar failures of the result.
C30_FixActionHasBonusAndSource ==
    result # None =>
        LET r == result[1]
            is_fix(action) == /\ Len(action) >= Len(ACTION_TEXT.apply_similar_fix)
                              /\ MatchAt(action, ACTION_TEXT.apply_similar_fix, 1)
        IN  /\ Len(r.similar_failures) <= 3
            /\ \A i \in 1..Len(r.suggested_actions) :
                    is_fix(r.suggested_actions[i]) =>
                        /\ r.confidence_score >= 500
                        /\ r.confidence_score \in {800, 701, 601, 501}
                        /\ \E k \in 1..Len(r.similar_failures) :
                                /\ r.similar_failures[k].resolution # None
                                /\ r.suggested_actions[i] =
                                        ACTION_TEXT.apply_similar_fix
                                        \o r.similar_failures[k].resolution[1].fix_applied

\* A result whose only fix action quotes the second-ranked similar failure,
\* for a failure classified UNKNOWN: confidence 0.8 - 0.2.
C30_Witness ==
    /\ result # None
    /\ result[1].classification = "UNKNOWN"
    /\ Len(result[1].similar_failures) >= 2
    /\ result[1].similar_failures[1].resolution = None
    /\ result[1].similar_failures[2].resolution # None
    /\ result[1].suggested_actions[1] =
            ACTION_TEXT.apply_similar_fix
            \o result[1].similar_failures[2].resolution[1].fix_applied
    /\ result[1].confidence_score = 601

\* C29: in the file pipeline the classification depends only on the first
\* five ERROR/FAIL messages of the log: two files of a batch whose first five
\* error-level messages are equal get the same classification, whatever their
\* later error lines hold.
C29_FirstFiveErrorLinesDecide ==
    LET FirstFive(name) ==
            LET entries == parse_log_lines(Files[name].content)
                errs == SelectSeq(entries, LAMBDA e : e.level \in {<<"E","R","R","O","R">>,
                                                                   <<"F","A","I","L">>})
            IN  [k \in 1..(IF Len(errs) < 5 THEN Len(errs) ELSE 5) |-> errs[k].message]
    IN  \A i, j \in 1..Len(results) :
            FirstFive(results[i][1]) = FirstFive(results[j][1]) =>
                results[i][2].classification = results[j][2].classification

\* Two files with the same first five error messages were analysed; the sixth
\* error line of one holds "Timeout": both are classified NETWORK, and the
\* parser's tag, taken from all six lines, gives them different flaky scores.
C29_Witness ==
    /\ Len(results) = 2
    /\ pc = "returned"
    /\ results[1][1] = "refused_then_timeout.log"
    /\ results[2][1] = "refused_then_gave_up.log"
    /\ results[1][2].classification = "NETWORK"
    /\ results[2][2].classification = "NETWORK"
    /\ parse_content(Files[results[1][1]].content).error_type
            # parse_content(Files[results[2][1]].content).error_type
    /\ results[1][2].flaky_probability # results[2][2].flaky_probability

\* C22: the test name is taken from the first line that contains "Starting
\* test:": it is the first whitespace-delimited token beginning with "test"
\* that follows the phrase in that line, and "unknown_test" if no line holds
\* the phrase or that line has no such token.
C22_TestNameFromFirstStartLine ==
    pc = "parsed" =>
        LET lines == SelectSeq(Split(content[1], "\n"),
                               LAMBDA l : \E i \in 1..Len(l) : l[i] \notin Whitespace)
            first == MinIndex({i \in 1..Len(lines) :
                                    Contains(lines[i], DOCUMENTED.starting_test)})
            after == LET line == lines[first]
                         at == FindFrom(line, DOCUMENTED.starting_test, 1)
                     IN  SubSeq(line, at + Len(DOCUMENTED.starting_test), Len(line))
            named == SelectSeq(SplitWhitespace(after),
                               LAMBDA token : /\ Len(token) >= Len(DOCUMENTED.test)
                                              /\ MatchAt(token, DOCUMENTED.test, 1))
        IN  parsed[1].test_name =
                IF first = 0 \/ named = <<>> THEN DOCUMENTED.unknown_test ELSE named[1]

\* C23: the parser's error type is decided by a case-insensitive substring
\* search over the error lines joined by spaces, in this order: "timeout"
\* gives TimeoutError; else "selector" or "element not found" SelectorError;
\* else "connection" or "network" NetworkError; else "database" or "duplicate
\* key" DatabaseError; else none.  A log without ERROR/FAIL line has none.
C23_ErrorTypeByPriority ==
    pc = "parsed" =>
        LET error_text == Lower(Join(parsed[1].error_lines, DOCUMENTED.space))
            Has(words) == \E k \in 1..Len(words) : Contains(error_text, words[k])
            failing == {i \in 1..Len(parsed[1].log_entries) :
                            parsed[1].log_entries[i].level \in
                                {DOCUMENTED.error_tokens[1], DOCUMENTED.error_tokens[2]}}
        IN  /\ parsed[1].error_type =
                    IF Has(DOCUMENTED.timeout_words) THEN Some(DOCUMENTED.error_types[1])
                    ELSE IF Has(DOCUMENTED.selector_words) THEN Some(DOCUMENTED.error_types[2])
                    ELSE IF Has(DOCUMENTED.network_words) THEN Some(DOCUMENTED.error_types[3])
                    ELSE IF Has(DOCUMENTED.database_words) THEN Some(DOCUMENTED.error_types[4])
                    ELSE None
            /\ failing = {} => parsed[1].error_type = None

\* A selector-and-network error line followed by a timeout error line: the
\* type is TimeoutError.
C23_Witness ==
    /\ pc = "parsed"
    /\ content = Some(LOG_LINES.all[10] \o LOG_LINES.newline \o LOG_LINES.all[8])
    /\ Len(parsed[1].error_lines) = 2
    /\ parsed[1].error_type = Some(DOCUMENTED.error_types[1])

C25_FirstDuration ==
    /\ SearchDuration(DOCUMENTED.after_32s) = Some(32)
    /\ pc = "parsed" =>
            LET entries == parsed[1].log_entries
                matching == {k \in 1..Len(entries) : SearchDuration(entries[k].message) # None}
            IN  /\ matching = {} => parsed[1].duration_seconds = None
                /\ matching # {} =>
                        parsed[1].duration_seconds =
                            SearchDuration(entries[MinIndex(matching)].message)

\* A line with "after 45s" followed by a line with "after 30s": 45.
C25_Witness ==
    /\ pc = "parsed"
    /\ content = Some(LOG_LINES.all[11] \o LOG_LINES.newline \o LOG_LINES.all[8])
    /\ parsed[1].duration_seconds = Some(45)

\* C26: the context window of radius r holds exactly the entries whose index
\* is within r of the index of some ERROR or FAIL entry, inside the list: each
\* once though the ranges of two errors overlap, in the order of the log;
\* every ERROR or FAIL entry is among them; there are none when the log has no
\* such entry, and with radius 0 they are exactly the ERROR and FAIL entries.
C26_ContextWindow ==
    pc = "windowed" =>
        LET entries == parsed[1].log_entries
            n       == Len(entries)
            radius  == window[1].around_errors
            got     == window[1].entries
            Failing(i) == entries[i].level \in {<<"E","R","R","O","R">>, <<"F","A","I","L">>}
            Near(i) == \E e \in 1..n : Failing(e) /\ e - radius <= i /\ i <= e + radius
            wanted  == {i \in 1..n : Near(i)}
            \* the member of wanted with k - 1 members below it
            Nth(k)  == CHOOSE i \in wanted : Cardinality({j \in wanted : j < i}) = k - 1
        IN  /\ Len(got) = Cardinality(wanted)
            /\ \A k \in 1..Len(got) : got[k] = entries[Nth(k)]
            /\ \A e \in 1..n : Failing(e) => e \in wanted
            /\ (\A e \in 1..n : ~Failing(e)) => got = <<>>
            /\ radius = 0 => got = SelectSeq(entries, LAMBDA x : x.level \in {<<"E","R","R","O","R">>, <<"F","A","I","L">>})

\* Two errors two entries apart were windowed with radius 1: the entry between
\* them is in the range of both, and the window stops at the end of the list.
C26_Witness ==
    /\ pc = "windowed"
    /\ window[1].around_errors = 1
    /\ LET entries == parsed[1].log_entries
       IN  /\ Len(entries) = 4
           /\ entries[1].level \notin {<<"E","R","R","O","R">>, <<"F","A","I","L">>}
           /\ entries[2].level = <<"E","R","R","O","R">>
           /\ entries[3].level \notin {<<"E","R","R","O","R">>, <<"F","A","I","L">>}
           /\ entries[4].level = <<"F","A","I","L">>
           /\ window[1].entries = entries

\* C27: load_sample_data_to_memory leaves SAMPLE_HISTORICAL_FAILURES, the
\* nested resolution dictionaries included, as the module defines it, so that
\* no call of it and no save_sample_data after it raises.
C27_SampleDataLeftAlone ==
    pc = "sample" =>
        /\ sample_data = SampleData
        /\ \A k \in 1..Len(calls) : ~calls[k].raised

=============================================================================
